---- MODULE Spec2Model ----
(***************************************************************************)
(* Model of the environment configuration validator                        *)
(* (infra/scripts/validate-env-config.py): the rule catalog of             *)
(* AzureResourceValidator, the EnvironmentValidator object with its        *)
(* finding accumulators, load_config, the seven checks run by              *)
(* validate_configuration, and the exit path of main.                      *)
(*                                                                         *)
(* Strings the code inspects character by character (configuration values, *)
(* region codes, SKU literals) are sequences of one-character strings, so  *)
(* that strip(), lower(), len() and re.match() are computed, not assumed.  *)
(* A finding is a record of the parts its message text is formatted from.  *)
(***************************************************************************)
EXTENDS Integers, Sequences, FiniteSets, TLC

\* ------------------------------------------------------------------------
\* Characters and str methods
\* ------------------------------------------------------------------------
LowerLetters ==
  <<"a", "b", "c", "d", "e", "f", "g", "h", "i", "j", "k", "l", "m",
    "n", "o", "p", "q", "r", "s", "t", "u", "v", "w", "x", "y", "z">>

UpperLetters ==
  <<"A", "B", "C", "D", "E", "F", "G", "H", "I", "J", "K", "L", "M",
    "N", "O", "P", "Q", "R", "S", "T", "U", "V", "W", "X", "Y", "Z">>

Lowers == {LowerLetters[i] : i \in 1..Len(LowerLetters)}

Uppers == {UpperLetters[i] : i \in 1..Len(UpperLetters)}

Digits == {"0", "1", "2", "3", "4", "5", "6", "7", "8", "9"}

Whitespace == {" ", "\t", "\n"}

\* Character classes of the catalog's and the e-mail check's patterns.
Alpha == Lowers \cup Uppers

Alnum == Alpha \cup Digits

AlnumHyphen == Alnum \cup {"-"}

LowerDigit == Lowers \cup Digits

LowerDigitHyphen == LowerDigit \cup {"-"}

AlnumPunct == Alnum \cup {"-", "_", "(", ")", "."}

EmailLocal == Alnum \cup {".", "_", "%", "+", "-"}

EmailDomain == Alnum \cup {".", "-"}

\* str.lower() on one character, then on a string.
LowerChar(c) ==
  IF c \in Uppers
    THEN LowerLetters[CHOOSE i \in 1..Len(UpperLetters) : UpperLetters[i] = c]
    ELSE c

lower(s) == [i \in 1..Len(s) |-> LowerChar(s[i])]

\* str.strip(): drop leading and trailing whitespace.
RECURSIVE lstrip(_)
lstrip(s) ==
  IF s # <<>> /\ Head(s) \in Whitespace THEN lstrip(Tail(s)) ELSE s

RECURSIVE rstrip(_)
rstrip(s) ==
  IF s # <<>> /\ s[Len(s)] \in Whitespace
    THEN rstrip(SubSeq(s, 1, Len(s) - 1))
    ELSE s

strip(s) == rstrip(lstrip(s))

\* ------------------------------------------------------------------------
\* re.match for the pattern shapes the code uses: '^' item* '$', where an
\* item is a character class with a repetition range {lo,hi}.
\* ------------------------------------------------------------------------
Unbounded == -1

Item(cls, lo, hi) == [cls |-> cls, lo |-> lo, hi |-> hi]

Min(a, b) == IF a < b THEN a ELSE b

\* '$' matches at the end of the string and just before a final newline.
AtEnd(s, pos) ==
  \/ pos = Len(s) + 1
  \/ pos = Len(s) /\ s[pos] = "\n"

RECURSIVE MatchFrom(_, _, _, _)
MatchFrom(items, k, s, pos) ==
  IF k > Len(items)
    THEN AtEnd(s, pos)
    ELSE LET it   == items[k]
             rest == Len(s) - pos + 1
             top  == IF it.hi = Unbounded THEN rest ELSE Min(it.hi, rest)
         IN  \E n \in it.lo..top :
               /\ \A j \in pos..(pos + n - 1) : s[j] \in it.cls
               /\ MatchFrom(items, k + 1, s, pos + n)

re_match(items, s) == MatchFrom(items, 1, s, 1)

\* The pattern of validate_email_format.
email_pattern ==
  <<Item(EmailLocal, 1, Unbounded), Item({"@"}, 1, 1),
    Item(EmailDomain, 1, Unbounded), Item({"."}, 1, 1),
    Item(Alpha, 2, Unbounded)>>

\* ------------------------------------------------------------------------
\* Rule catalog (class AzureResourceValidator)
\* ------------------------------------------------------------------------
\* AzureResourceValidator.NAMING_PATTERNS, in dictionary (insertion) order.
NamingOrder ==
  <<"KEYVAULT_NAME",
    "STORAGE_ACCOUNT_NAME",
    "CONTAINER_REGISTRY_NAME",
    "COGNITIVE_SEARCH_NAME",
    "AI_SERVICES_NAME",
    "OPENAI_SERVICE_NAME",
    "LOG_WORKSPACE_NAME",
    "APPLICATION_INSIGHTS_NAME",
    "RESOURCE_GROUP">>

NAMING_PATTERNS ==
     "KEYVAULT_NAME" :> [pattern |-> <<Item(Alpha, 1, 1), Item(AlnumHyphen, 1, 22), Item(Alnum, 1, 1)>>,
       min_length |-> 3, max_length |-> 24, scope |-> "global",
       description |-> "Key Vault name",
       restrictions |-> <<"Must start with letter",
                          "Cannot end with hyphen",
                          "Cannot have consecutive hyphens",
                          "Alphanumeric and hyphens only">>]
  @@ "STORAGE_ACCOUNT_NAME" :> [pattern |-> <<Item(LowerDigit, 3, 24)>>,
       min_length |-> 3, max_length |-> 24, scope |-> "global",
       description |-> "Storage Account name",
       restrictions |-> <<"Lowercase letters and numbers only",
                          "No hyphens or special characters",
                          "No uppercase letters">>]
  @@ "CONTAINER_REGISTRY_NAME" :> [pattern |-> <<Item(Alpha, 1, 1), Item(Alnum, 4, 49)>>,
       min_length |-> 5, max_length |-> 50, scope |-> "global",
       description |-> "Container Registry name",
       restrictions |-> <<"Must start with letter",
                          "Alphanumeric only (no hyphens)",
                          "Cannot start with number">>]
  @@ "COGNITIVE_SEARCH_NAME" :> [pattern |-> <<Item(LowerDigit, 1, 1), Item(LowerDigitHyphen, 0, 58), Item(LowerDigit, 1, 1)>>,
       min_length |-> 2, max_length |-> 60, scope |-> "global",
       description |-> "Cognitive Search service name",
       restrictions |-> <<"Lowercase letters, numbers, and hyphens only",
                          "Cannot start or end with hyphen",
                          "Cannot have consecutive hyphens">>]
  @@ "AI_SERVICES_NAME" :> [pattern |-> <<Item(Alnum, 1, 1), Item(AlnumHyphen, 0, 62), Item(Alnum, 1, 1)>>,
       min_length |-> 2, max_length |-> 64, scope |-> "resource_group",
       description |-> "AI Services account name",
       restrictions |-> <<"Cannot start or end with hyphen",
                          "Alphanumeric and hyphens only">>]
  @@ "OPENAI_SERVICE_NAME" :> [pattern |-> <<Item(Alnum, 1, 1), Item(AlnumHyphen, 0, 62), Item(Alnum, 1, 1)>>,
       min_length |-> 2, max_length |-> 64, scope |-> "resource_group",
       description |-> "OpenAI service name",
       restrictions |-> <<"Cannot start or end with hyphen",
                          "Alphanumeric and hyphens only">>]
  @@ "LOG_WORKSPACE_NAME" :> [pattern |-> <<Item(Alnum, 1, 1), Item(AlnumHyphen, 2, 61), Item(Alnum, 1, 1)>>,
       min_length |-> 4, max_length |-> 63, scope |-> "resource_group",
       description |-> "Log Analytics workspace name",
       restrictions |-> <<"Cannot start or end with hyphen",
                          "Alphanumeric and hyphens only">>]
  @@ "APPLICATION_INSIGHTS_NAME" :> [pattern |-> <<Item(Alnum, 1, 1), Item(AlnumPunct, 0, 258), Item(Alnum, 1, 1)>>,
       min_length |-> 1, max_length |-> 260, scope |-> "resource_group",
       description |-> "Application Insights component name",
       restrictions |-> <<"Most characters allowed",
                          "Cannot contain: <, >, %, &, \\, ?, /, control characters">>]
  @@ "RESOURCE_GROUP" :> [pattern |-> <<Item(Alnum, 1, 1), Item(AlnumPunct, 0, 88), Item(Alnum, 1, 1)>>,
       min_length |-> 1, max_length |-> 90, scope |-> "subscription",
       description |-> "Resource Group name",
       restrictions |-> <<"Cannot end with period",
                          "Alphanumeric, underscore, parentheses, hyphen, period allowed">>]

\* AzureResourceValidator.AZURE_REGIONS: region code -> capability flags.
AZURE_REGIONS ==
     <<"e", "a", "s", "t", "u", "s">> :>
       [ai_services |-> TRUE, openai |-> TRUE, search |-> TRUE]
  @@ <<"e", "a", "s", "t", "u", "s", "2">> :>
       [ai_services |-> TRUE, openai |-> TRUE, search |-> TRUE]
  @@ <<"w", "e", "s", "t", "u", "s">> :>
       [ai_services |-> TRUE, openai |-> TRUE, search |-> TRUE]
  @@ <<"w", "e", "s", "t", "u", "s", "2">> :>
       [ai_services |-> TRUE, openai |-> TRUE, search |-> TRUE]
  @@ <<"w", "e", "s", "t", "u", "s", "3">> :>
       [ai_services |-> TRUE, openai |-> FALSE, search |-> TRUE]
  @@ <<"c", "e", "n", "t", "r", "a", "l", "u", "s">> :>
       [ai_services |-> TRUE, openai |-> TRUE, search |-> TRUE]
  @@ <<"n", "o", "r", "t", "h", "c", "e", "n", "t", "r", "a", "l", "u", "s">> :>
       [ai_services |-> TRUE, openai |-> FALSE, search |-> TRUE]
  @@ <<"s", "o", "u", "t", "h", "c", "e", "n", "t", "r", "a", "l", "u", "s">> :>
       [ai_services |-> TRUE, openai |-> TRUE, search |-> TRUE]
  @@ <<"w", "e", "s", "t", "c", "e", "n", "t", "r", "a", "l", "u", "s">> :>
       [ai_services |-> TRUE, openai |-> FALSE, search |-> TRUE]
  @@ <<"c", "a", "n", "a", "d", "a", "c", "e", "n", "t", "r", "a", "l">> :>
       [ai_services |-> TRUE, openai |-> TRUE, search |-> TRUE]
  @@ <<"c", "a", "n", "a", "d", "a", "e", "a", "s", "t">> :>
       [ai_services |-> TRUE, openai |-> FALSE, search |-> TRUE]
  @@ <<"b", "r", "a", "z", "i", "l", "s", "o", "u", "t", "h">> :>
       [ai_services |-> TRUE, openai |-> FALSE, search |-> TRUE]
  @@ <<"n", "o", "r", "t", "h", "e", "u", "r", "o", "p", "e">> :>
       [ai_services |-> TRUE, openai |-> TRUE, search |-> TRUE]
  @@ <<"w", "e", "s", "t", "e", "u", "r", "o", "p", "e">> :>
       [ai_services |-> TRUE, openai |-> TRUE, search |-> TRUE]
  @@ <<"f", "r", "a", "n", "c", "e", "c", "e", "n", "t", "r", "a", "l">> :>
       [ai_services |-> TRUE, openai |-> TRUE, search |-> TRUE]
  @@ <<"g", "e", "r", "m", "a", "n", "y", "w", "e", "s", "t", "c", "e", "n", "t", "r", "a", "l">> :>
       [ai_services |-> TRUE, openai |-> FALSE, search |-> TRUE]
  @@ <<"n", "o", "r", "w", "a", "y", "e", "a", "s", "t">> :>
       [ai_services |-> TRUE, openai |-> FALSE, search |-> TRUE]
  @@ <<"s", "w", "i", "t", "z", "e", "r", "l", "a", "n", "d", "n", "o", "r", "t", "h">> :>
       [ai_services |-> TRUE, openai |-> TRUE, search |-> TRUE]
  @@ <<"u", "k", "s", "o", "u", "t", "h">> :>
       [ai_services |-> TRUE, openai |-> TRUE, search |-> TRUE]
  @@ <<"u", "k", "w", "e", "s", "t">> :>
       [ai_services |-> TRUE, openai |-> FALSE, search |-> TRUE]
  @@ <<"e", "a", "s", "t", "a", "s", "i", "a">> :>
       [ai_services |-> TRUE, openai |-> FALSE, search |-> TRUE]
  @@ <<"s", "o", "u", "t", "h", "e", "a", "s", "t", "a", "s", "i", "a">> :>
       [ai_services |-> TRUE, openai |-> FALSE, search |-> TRUE]
  @@ <<"a", "u", "s", "t", "r", "a", "l", "i", "a", "e", "a", "s", "t">> :>
       [ai_services |-> TRUE, openai |-> TRUE, search |-> TRUE]
  @@ <<"a", "u", "s", "t", "r", "a", "l", "i", "a", "s", "o", "u", "t", "h", "e", "a", "s", "t">> :>
       [ai_services |-> TRUE, openai |-> FALSE, search |-> TRUE]
  @@ <<"c", "e", "n", "t", "r", "a", "l", "i", "n", "d", "i", "a">> :>
       [ai_services |-> TRUE, openai |-> FALSE, search |-> TRUE]
  @@ <<"s", "o", "u", "t", "h", "i", "n", "d", "i", "a">> :>
       [ai_services |-> TRUE, openai |-> FALSE, search |-> TRUE]
  @@ <<"w", "e", "s", "t", "i", "n", "d", "i", "a">> :>
       [ai_services |-> TRUE, openai |-> FALSE, search |-> TRUE]
  @@ <<"j", "a", "p", "a", "n", "e", "a", "s", "t">> :>
       [ai_services |-> TRUE, openai |-> TRUE, search |-> TRUE]
  @@ <<"j", "a", "p", "a", "n", "w", "e", "s", "t">> :>
       [ai_services |-> TRUE, openai |-> FALSE, search |-> TRUE]
  @@ <<"k", "o", "r", "e", "a", "c", "e", "n", "t", "r", "a", "l">> :>
       [ai_services |-> TRUE, openai |-> FALSE, search |-> TRUE]
  @@ <<"k", "o", "r", "e", "a", "s", "o", "u", "t", "h">> :>
       [ai_services |-> TRUE, openai |-> FALSE, search |-> TRUE]

\* AzureResourceValidator.VALID_SKUS, in dictionary (insertion) order.
SkuOrder ==
  <<"AI_SERVICES_SKU",
    "OPENAI_SKU",
    "SEARCH_SKU",
    "STORAGE_SKU",
    "CONTAINER_REGISTRY_SKU",
    "LOG_ANALYTICS_SKU">>

VALID_SKUS ==
     "AI_SERVICES_SKU" :>
       [valid_values |-> <<<<"F", "0">>,
          <<"S", "0">>,
          <<"S", "1">>,
          <<"S", "2">>,
          <<"S", "3">>,
          <<"S", "4">>>>,
        limitations |-> (<<"F", "0">> :> "Free tier: 20 transactions/minute, limited features")
          @@ (<<"S", "0">> :> "Standard: Pay-per-use, full features")]
  @@ "OPENAI_SKU" :>
       [valid_values |-> <<<<"S", "0">>>>,
        limitations |-> (<<"S", "0">> :> "Standard: Pay-per-token consumption")]
  @@ "SEARCH_SKU" :>
       [valid_values |-> <<<<"f", "r", "e", "e">>,
          <<"b", "a", "s", "i", "c">>,
          <<"s", "t", "a", "n", "d", "a", "r", "d">>,
          <<"s", "t", "a", "n", "d", "a", "r", "d", "2">>,
          <<"s", "t", "a", "n", "d", "a", "r", "d", "3">>,
          <<"s", "t", "o", "r", "a", "g", "e", "_", "o", "p", "t", "i", "m", "i", "z", "e", "d", "_", "l", "1">>,
          <<"s", "t", "o", "r", "a", "g", "e", "_", "o", "p", "t", "i", "m", "i", "z", "e", "d", "_", "l", "2">>>>,
        limitations |-> (<<"f", "r", "e", "e">> :> "Free: 50MB storage, 3 indexes, 10k documents")
          @@ (<<"b", "a", "s", "i", "c">> :> "Basic: 2GB storage, 15 indexes, 1M documents")]
  @@ "STORAGE_SKU" :>
       [valid_values |-> <<<<"S", "t", "a", "n", "d", "a", "r", "d", "_", "L", "R", "S">>,
          <<"S", "t", "a", "n", "d", "a", "r", "d", "_", "G", "R", "S">>,
          <<"S", "t", "a", "n", "d", "a", "r", "d", "_", "R", "A", "G", "R", "S">>,
          <<"S", "t", "a", "n", "d", "a", "r", "d", "_", "Z", "R", "S">>,
          <<"P", "r", "e", "m", "i", "u", "m", "_", "L", "R", "S">>,
          <<"P", "r", "e", "m", "i", "u", "m", "_", "Z", "R", "S">>>>,
        limitations |-> (<<"S", "t", "a", "n", "d", "a", "r", "d", "_", "L", "R", "S">> :> "Locally redundant storage")
          @@ (<<"P", "r", "e", "m", "i", "u", "m", "_", "L", "R", "S">> :> "Premium requires specific VM types")]
  @@ "CONTAINER_REGISTRY_SKU" :>
       [valid_values |-> <<<<"B", "a", "s", "i", "c">>,
          <<"S", "t", "a", "n", "d", "a", "r", "d">>,
          <<"P", "r", "e", "m", "i", "u", "m">>>>,
        limitations |-> (<<"B", "a", "s", "i", "c">> :> "Basic: 10GB storage, limited features")
          @@ (<<"P", "r", "e", "m", "i", "u", "m">> :> "Premium: 500GB storage, advanced features")]
  @@ "LOG_ANALYTICS_SKU" :>
       [valid_values |-> <<<<"P", "e", "r", "G", "B", "2", "0", "1", "8">>,
          <<"F", "r", "e", "e">>,
          <<"S", "t", "a", "n", "d", "a", "l", "o", "n", "e">>,
          <<"P", "e", "r", "N", "o", "d", "e">>>>,
        limitations |-> (<<"F", "r", "e", "e">> :> "Free: 500MB/day limit, 7-day retention")
          @@ (<<"P", "e", "r", "G", "B", "2", "0", "1", "8">> :> "Pay per GB ingested")]

\* ------------------------------------------------------------------------
\* Findings: the parts each message string is formatted from
\* ------------------------------------------------------------------------
RECURSIVE join(_, _)
\* sep.join(items) for strings as character sequences.
join(sep, items) ==
  IF items = <<>> THEN <<>>
  ELSE IF Len(items) = 1 THEN items[1]
  ELSE items[1] \o sep \o join(sep, Tail(items))

CommaSpace == <<",", " ">>

\* "Environment file not found: {env_file}"
FileNotFoundFinding(env_file) ==
  [kind |-> "file_not_found", var |-> env_file]

\* "Required environment variable missing or empty: {var}"
MissingVarFinding(var) ==
  [kind |-> "missing_required", var |-> var]

\* "Invalid {description}: '{value}' does not match required pattern"
PatternFinding(rules, value) ==
  [kind |-> "naming_pattern", description |-> rules.description,
   value |-> value]

\* "  - {restriction}"
RestrictionFinding(restriction) ==
  [kind |-> "restriction", text |-> restriction]

\* "Invalid {description} length: '{value}' ({len} chars, must be {min}-{max})"
LengthFinding(rules, value) ==
  [kind |-> "naming_length", description |-> rules.description,
   value |-> value, len |-> Len(value),
   min_length |-> rules.min_length, max_length |-> rules.max_length]

\* "{description} '{value}' is short and may conflict with existing global
\* resources"
ShortNameFinding(rules, value) ==
  [kind |-> "short_global_name", description |-> rules.description,
   value |-> value]

\* "Uncommon Azure location: '{location}'. Verify all services ..."
UncommonLocationFinding(location) ==
  [kind |-> "uncommon_location", value |-> location]

\* "AI Services not available in region: {location}"
AiServicesFinding(location) ==
  [kind |-> "ai_services_unavailable", value |-> location]

\* "Azure OpenAI not available in region: {location}"
OpenAiFinding(location) ==
  [kind |-> "openai_unavailable", value |-> location]

\* "Cognitive Search may have limited availability in region: {location}"
SearchFinding(location) ==
  [kind |-> "search_limited", value |-> location]

\* (variant: the valid values are listed last to first)
InvalidSkuFindingReversed(sku_var, sku_value, valid_values) ==
  [kind |-> "invalid_sku", var |-> sku_var, value |-> sku_value,
   valid_options |->
     join(CommaSpace, [i \in 1..Len(valid_values) |->
                         valid_values[Len(valid_values) + 1 - i]])]

\* "Invalid {sku_var}: '{sku_value}'. Valid options: {', '.join(valid)}"
InvalidSkuFinding(sku_var, sku_value, valid_values) ==
  [kind |-> "invalid_sku", var |-> sku_var, value |-> sku_value,
   valid_options |-> join(CommaSpace, valid_values)]

\* "{sku_var} ({sku_value}): {limitation}"
SkuLimitationFinding(sku_var, sku_value, limitation) ==
  [kind |-> "sku_limitation", var |-> sku_var, value |-> sku_value,
   text |-> limitation]

\* "Invalid boolean value for {var}: '{value}' (must be 'true' or 'false')"
InvalidBooleanFinding(var, value) ==
  [kind |-> "invalid_boolean", var |-> var, value |-> value]

\* "Invalid NETWORK_ACCESS: '{access_level}'. Valid options: ..."
InvalidNetworkFinding(access_level, valid_levels) ==
  [kind |-> "invalid_network_access", value |-> access_level,
   valid_options |-> join(CommaSpace, valid_levels)]

\* "Private network access requires VNet configuration and may affect
\* connectivity"
PrivateNetworkFinding == [kind |-> "private_network"]

\* "RESOURCE_OWNER '{email}' may not be a valid email format"
EmailFinding(email) == [kind |-> "invalid_email", value |-> email]

\* "Azure CLI not found. Install from: ..."
CliNotFoundFinding == [kind |-> "cli_not_found"]

\* "Azure CLI not authenticated. Run: az login"
CliNotAuthenticatedFinding == [kind |-> "cli_not_authenticated"]

\* "Could not verify Azure CLI status"
CliUnverifiedFinding == [kind |-> "cli_unverified"]

\* "Azure CLI authenticated: {subscription_name} ({subscription_id[:8]}...)"
CliAuthenticatedFinding(subscription_name, id_prefix) ==
  [kind |-> "cli_authenticated", text |-> subscription_name,
   var |-> id_prefix]

\* ------------------------------------------------------------------------
\* EnvironmentValidator: construction and load_config
\* ------------------------------------------------------------------------
\* A mapping with no keys ({} in the code).
EmptyMap == [k \in {} |-> <<>>]

\* EnvironmentValidator.__init__: the accumulators and the config mapping
\* are created here, once per object.
NewValidator(verbose) ==
  [verbose |-> verbose, errors |-> <<>>, warnings |-> <<>>,
   info_messages |-> <<>>, config |-> EmptyMap]

required_vars ==
  <<"LOCATION", "RESOURCE_GROUP", "KEYVAULT_NAME",
    "AI_SERVICES_NAME", "OPENAI_SERVICE_NAME", "COGNITIVE_SEARCH_NAME",
    "STORAGE_ACCOUNT_NAME", "CONTAINER_REGISTRY_NAME",
    "LOG_WORKSPACE_NAME", "APPLICATION_INSIGHTS_NAME">>

optional_vars ==
  <<"ENVIRONMENT", "PROJECT_NAME", "RESOURCE_OWNER", "COST_CENTER",
    "AI_SERVICES_SKU", "OPENAI_SKU", "SEARCH_SKU", "STORAGE_SKU",
    "CONTAINER_REGISTRY_SKU", "LOG_ANALYTICS_SKU",
    "ENABLE_DIAGNOSTICS", "ENABLE_SOFT_DELETE", "ENABLE_PURGE_PROTECTION",
    "NETWORK_ACCESS", "VALIDATE_DEPLOYMENT", "DRY_RUN", "VERBOSE_LOGGING">>

Range(seq) == {seq[i] : i \in 1..Len(seq)}

\* os.getenv(var) is None or "" or whitespace only.
Unset(env, var) ==
  \/ var \notin DOMAIN env
  \/ env[var] = <<>>
  \/ strip(env[var]) = <<>>

\* load_dotenv(env_path, override=True): every entry of the file is written
\* into the process environment; entries the file does not name stay.
load_dotenv(file, env) ==
  [k \in DOMAIN file \cup DOMAIN env |->
     IF k \in DOMAIN file THEN file[k] ELSE env[k]]

\* self.config[var] = value.strip() for the given variables that are set.
StoreVars(config, env, vars) ==
  [k \in DOMAIN config \cup {v \in vars : ~Unset(env, v)} |->
     IF k \in vars /\ ~Unset(env, k) THEN strip(env[k]) ELSE config[k]]

\* load_config(env_file): the validator after the call, the process
\* environment after the call, and the value returned.
load_config(V, env_file, fs, env) ==
  IF env_file \notin DOMAIN fs
    THEN [V |-> [V EXCEPT !.errors = Append(@, FileNotFoundFinding(env_file))],
          env |-> env, result |-> FALSE]
    ELSE
      LET env1         == load_dotenv(fs[env_file], env)
          missing_vars == SelectSeq(required_vars, LAMBDA v : Unset(env1, v))
          config1      == StoreVars(V.config, env1, Range(required_vars))
      IN  IF missing_vars # <<>>
            THEN [V |-> [V EXCEPT
                           !.config = config1,
                           !.errors = @ \o [i \in 1..Len(missing_vars) |->
                                              MissingVarFinding(missing_vars[i])]],
                  env |-> env1, result |-> FALSE]
            ELSE [V |-> [V EXCEPT
                           !.config = StoreVars(config1, env1,
                                                Range(optional_vars))],
                  env |-> env1, result |-> TRUE]

\* ------------------------------------------------------------------------
\* The seven checks.  Each operator maps the validator before the check to
\* the validator after it.
\* ------------------------------------------------------------------------
\* (variant: the mismatch error alone, without the restriction lines)
NamingPatternErrorsNoRestrictions(rules, value) ==
  IF ~re_match(rules.pattern, value)
    THEN <<PatternFinding(rules, value)>>
    ELSE <<>>

\* validate_azure_naming, pattern part: the mismatch error followed by one
\* error per restriction.
NamingPatternErrors(rules, value) ==
  IF ~re_match(rules.pattern, value)
    THEN <<PatternFinding(rules, value)>> \o
         [i \in 1..Len(rules.restrictions) |->
            RestrictionFinding(rules.restrictions[i])]
    ELSE <<>>

\* validate_azure_naming, length part.
NamingLengthErrors(rules, value) ==
  IF Len(value) < rules.min_length \/ Len(value) > rules.max_length
    THEN <<LengthFinding(rules, value)>>
    ELSE <<>>

\* (variant: the length is looked at only when the pattern matched)
NamingErrorsShortCircuit(rules, value) ==
  IF NamingPatternErrors(rules, value) # <<>>
    THEN NamingPatternErrors(rules, value)
    ELSE NamingLengthErrors(rules, value)

\* validate_azure_naming: the errors of one rule; both parts always run.
NamingErrors(rules, value) ==
  NamingPatternErrors(rules, value) \o NamingLengthErrors(rules, value)

\* (variant: the warning is given only for a name that passed both checks)
NamingWarningsIfAccepted(rules, value) ==
  IF /\ rules.scope = "global"
     /\ Len(value) < 8
     /\ re_match(rules.pattern, value)
     /\ Len(value) >= rules.min_length
    THEN <<ShortNameFinding(rules, value)>>
    ELSE <<>>

\* validate_azure_naming, global uniqueness warning.
NamingWarnings(rules, value) ==
  IF rules.scope = "global" /\ Len(value) < 8
    THEN <<ShortNameFinding(rules, value)>>
    ELSE <<>>

RECURSIVE NamingFrom(_, _)
\* The loop of validate_azure_naming from the i-th catalog entry on.
NamingFrom(V, i) ==
  IF i > Len(NamingOrder) THEN V
  ELSE LET var_name == NamingOrder[i]
           rules    == NAMING_PATTERNS[var_name]
       IN  IF var_name \in DOMAIN V.config
             THEN LET value == V.config[var_name]
                  IN  NamingFrom(
                        [V EXCEPT
                           !.errors = @ \o NamingErrors(rules, value),
                           !.warnings = @ \o NamingWarnings(rules, value)],
                        i + 1)
             ELSE NamingFrom(V, i + 1)

validate_azure_naming(V) == NamingFrom(V, 1)

\* (variant: an unlisted region falls through to the capability checks, where
\* every flag reads as False)
RegionFindingsNoReturn(regions, V) ==
  IF "LOCATION" \notin DOMAIN V.config THEN V
  ELSE LET location == lower(V.config["LOCATION"])
       IN  IF location \notin DOMAIN regions
             THEN [V EXCEPT
                     !.warnings = Append(@, UncommonLocationFinding(location))
                                    \o <<SearchFinding(location)>>,
                     !.errors = @ \o <<AiServicesFinding(location),
                                       OpenAiFinding(location)>>]
             ELSE V

\* (variant: a region without OpenAI is only warned about)
RegionFindingsOpenAiWarning(regions, V) ==
  IF "LOCATION" \notin DOMAIN V.config THEN V
  ELSE LET location == lower(V.config["LOCATION"])
       IN  IF location \notin DOMAIN regions
             THEN [V EXCEPT !.warnings =
                               Append(@, UncommonLocationFinding(location))]
             ELSE LET region_info == regions[location]
                  IN  [V EXCEPT
                         !.errors = @ \o
                           (IF ~region_info.ai_services
                              THEN <<AiServicesFinding(location)>> ELSE <<>>),
                         !.warnings = @ \o
                           (IF ~region_info.openai
                              THEN <<OpenAiFinding(location)>> ELSE <<>>) \o
                           (IF ~region_info.search
                              THEN <<SearchFinding(location)>> ELSE <<>>)]

\* (variant: the region is looked up as written, without lower())
RegionFindingsCaseSensitive(regions, V) ==
  IF "LOCATION" \notin DOMAIN V.config THEN V
  ELSE LET location == V.config["LOCATION"]
       IN  IF location \notin DOMAIN regions
             THEN [V EXCEPT !.warnings =
                               Append(@, UncommonLocationFinding(location))]
             ELSE LET region_info == regions[location]
                  IN  [V EXCEPT
                         !.errors = @ \o
                           (IF ~region_info.ai_services
                              THEN <<AiServicesFinding(location)>> ELSE <<>>) \o
                           (IF ~region_info.openai
                              THEN <<OpenAiFinding(location)>> ELSE <<>>),
                         !.warnings = @ \o
                           (IF ~region_info.search
                              THEN <<SearchFinding(location)>> ELSE <<>>)]

\* The body of validate_azure_location, for a given region table.
RegionFindings(regions, V) ==
  IF "LOCATION" \notin DOMAIN V.config THEN V
  ELSE LET location == lower(V.config["LOCATION"])
       IN  IF location \notin DOMAIN regions
             THEN [V EXCEPT !.warnings =
                               Append(@, UncommonLocationFinding(location))]
             ELSE LET region_info == regions[location]
                  IN  [V EXCEPT
                         !.errors = @ \o
                           (IF ~region_info.ai_services
                              THEN <<AiServicesFinding(location)>> ELSE <<>>) \o
                           (IF ~region_info.openai
                              THEN <<OpenAiFinding(location)>> ELSE <<>>),
                         !.warnings = @ \o
                           (IF ~region_info.search
                              THEN <<SearchFinding(location)>> ELSE <<>>)]

validate_azure_location(V) == RegionFindings(AZURE_REGIONS, V)

RECURSIVE SkuFrom(_, _)
\* The loop of validate_sku_configurations from the i-th catalog entry on.
SkuFrom(V, i) ==
  IF i > Len(SkuOrder) THEN V
  ELSE LET sku_var    == SkuOrder[i]
           sku_config == VALID_SKUS[sku_var]
       IN  IF sku_var \in DOMAIN V.config
             THEN LET sku_value == V.config[sku_var]
                  IN  IF sku_value \notin Range(sku_config.valid_values)
                        THEN SkuFrom(
                               [V EXCEPT !.errors = Append(@,
                                  InvalidSkuFinding(sku_var, sku_value,
                                                    sku_config.valid_values))],
                               i + 1)
                        ELSE IF sku_value \in DOMAIN sku_config.limitations
                          THEN SkuFrom(
                                 [V EXCEPT !.info_messages = Append(@,
                                    SkuLimitationFinding(sku_var, sku_value,
                                       sku_config.limitations[sku_value]))],
                                 i + 1)
                          ELSE SkuFrom(V, i + 1)
             ELSE SkuFrom(V, i + 1)

validate_sku_configurations(V) == SkuFrom(V, 1)

boolean_vars ==
  <<"ENABLE_DIAGNOSTICS", "ENABLE_SOFT_DELETE", "ENABLE_PURGE_PROTECTION",
    "VALIDATE_DEPLOYMENT", "DRY_RUN", "VERBOSE_LOGGING">>

true_false == {<<"t", "r", "u", "e">>, <<"f", "a", "l", "s", "e">>}

RECURSIVE BooleanFromCaseSensitive(_, _)
\* (variant: the value is compared as written, without lower())
BooleanFromCaseSensitive(V, i) ==
  IF i > Len(boolean_vars) THEN V
  ELSE LET var == boolean_vars[i]
       IN  IF var \in DOMAIN V.config
                /\ V.config[var] \notin true_false
             THEN BooleanFromCaseSensitive(
                    [V EXCEPT !.errors = Append(@,
                       InvalidBooleanFinding(var, V.config[var]))],
                    i + 1)
             ELSE BooleanFromCaseSensitive(V, i + 1)

RECURSIVE BooleanFrom(_, _)
\* The loop of validate_boolean_values from the i-th variable on.
BooleanFrom(V, i) ==
  IF i > Len(boolean_vars) THEN V
  ELSE LET var == boolean_vars[i]
       IN  IF var \in DOMAIN V.config
                /\ lower(V.config[var]) \notin true_false
             THEN BooleanFrom(
                    [V EXCEPT !.errors = Append(@,
                       InvalidBooleanFinding(var, lower(V.config[var])))],
                    i + 1)
             ELSE BooleanFrom(V, i + 1)

validate_boolean_values(V) == BooleanFrom(V, 1)

Public == <<"P", "u", "b", "l", "i", "c">>

Private == <<"P", "r", "i", "v", "a", "t", "e">>

Restricted == <<"R", "e", "s", "t", "r", "i", "c", "t", "e", "d">>

valid_levels == <<Public, Private, Restricted>>

\* (variant: the level is compared without regard to case)
validate_network_access_any_case(V) ==
  IF "NETWORK_ACCESS" \notin DOMAIN V.config THEN V
  ELSE LET access_level == V.config["NETWORK_ACCESS"]
       IN  IF lower(access_level)
                \notin {lower(valid_levels[i]) : i \in 1..Len(valid_levels)}
             THEN [V EXCEPT !.errors = Append(@,
                     InvalidNetworkFinding(access_level, valid_levels))]
             ELSE IF lower(access_level) = lower(Private)
               THEN [V EXCEPT !.warnings = Append(@, PrivateNetworkFinding)]
               ELSE V

validate_network_access(V) ==
  IF "NETWORK_ACCESS" \notin DOMAIN V.config THEN V
  ELSE LET access_level == V.config["NETWORK_ACCESS"]
       IN  IF access_level \notin Range(valid_levels)
             THEN [V EXCEPT !.errors = Append(@,
                     InvalidNetworkFinding(access_level, valid_levels))]
             ELSE IF access_level = Private
               THEN [V EXCEPT !.warnings = Append(@, PrivateNetworkFinding)]
               ELSE V

\* (variant: an absent RESOURCE_OWNER is checked as the empty string)
validate_email_format_default_empty(V) ==
  LET email == IF "RESOURCE_OWNER" \in DOMAIN V.config
                 THEN V.config["RESOURCE_OWNER"] ELSE <<>>
  IN  IF ~re_match(email_pattern, email)
        THEN [V EXCEPT !.warnings = Append(@, EmailFinding(email))]
        ELSE V

validate_email_format(V) ==
  IF "RESOURCE_OWNER" \notin DOMAIN V.config THEN V
  ELSE LET email == V.config["RESOURCE_OWNER"]
       IN  IF ~re_match(email_pattern, email)
             THEN [V EXCEPT !.warnings = Append(@, EmailFinding(email))]
             ELSE V

\* What the two 'az' invocations of the probe can do.  version: the outcome
\* of 'az --version'; show: the outcome of 'az account show'; stdout: what
\* json.loads makes of its output.
ProbeOutcomes ==
  {[version |-> "FileNotFoundError", show |-> "not_run", stdout |-> "none"],
   [version |-> "nonzero", show |-> "not_run", stdout |-> "none"],
   [version |-> "zero", show |-> "TimeoutExpired", stdout |-> "none"],
   [version |-> "zero", show |-> "nonzero", stdout |-> "none"],
   [version |-> "zero", show |-> "zero", stdout |-> "not_json"],
   [version |-> "zero", show |-> "zero", stdout |-> "json_array"],
   [version |-> "zero", show |-> "zero", stdout |-> "json_object_null_id"],
   [version |-> "zero", show |-> "zero", stdout |-> "json_object_empty"],
   [version |-> "zero", show |-> "zero", stdout |-> "json_object_account"]}

\* The exception classes the probe's except clause names.
CaughtByProbe ==
  {"TimeoutExpired", "CalledProcessError", "JSONDecodeError",
   "FileNotFoundError"}

\* The body of the try block: the validator after it and the exception it
\* ends with ("none" when it completes or returns).
ProbeBody(V, o) ==
  IF o.version \in {"FileNotFoundError", "TimeoutExpired"}
    THEN [V |-> V, exc |-> o.version]
  ELSE IF o.version = "nonzero"
    THEN [V |-> [V EXCEPT !.warnings = Append(@, CliNotFoundFinding)],
          exc |-> "none"]
  ELSE IF o.show = "TimeoutExpired"
    THEN [V |-> V, exc |-> "TimeoutExpired"]
  ELSE IF o.show = "nonzero"
    THEN [V |-> [V EXCEPT !.warnings = Append(@, CliNotAuthenticatedFinding)],
          exc |-> "none"]
  ELSE IF o.stdout = "not_json"
    THEN [V |-> V, exc |-> "JSONDecodeError"]
  \* json.loads gave a list: account_info.get fails
  ELSE IF o.stdout = "json_array"
    THEN [V |-> V, exc |-> "AttributeError"]
  \* {"id": null}: subscription_id[:8] fails
  ELSE IF o.stdout = "json_object_null_id"
    THEN [V |-> V, exc |-> "TypeError"]
  ELSE IF o.stdout = "json_object_empty"
    THEN [V |-> [V EXCEPT !.info_messages = Append(@,
                   CliAuthenticatedFinding("Unknown", "Unknown"))],
          exc |-> "none"]
  ELSE [V |-> [V EXCEPT !.info_messages = Append(@,
                 CliAuthenticatedFinding("subscription", "id[:8]"))],
        exc |-> "none"]

\* check_azure_cli_availability: the try block and its except clause.
check_azure_cli_availability(V, o) ==
  LET body == ProbeBody(V, o)
  IN  IF body.exc \in CaughtByProbe
        THEN [V |-> [body.V EXCEPT !.warnings = Append(@, CliUnverifiedFinding)],
              exc |-> "none"]
        ELSE body

\* validate_configuration: the order of the calls.
CheckOrder ==
  <<"naming", "location", "sku", "boolean", "network", "email", "cli">>

\* (variant: the summary is built as soon as a check has left an error)
AfterCheckFailFast(step, V) ==
  LET i == CHOOSE j \in 1..Len(CheckOrder) : CheckOrder[j] = step
  IN  IF i < Len(CheckOrder) /\ V.errors = <<>>
        THEN CheckOrder[i + 1]
        ELSE "summary"

\* validate_configuration: what follows a check that returned normally.
AfterCheck(step, V) ==
  LET i == CHOOSE j \in 1..Len(CheckOrder) : CheckOrder[j] = step
  IN  IF i < Len(CheckOrder) THEN CheckOrder[i + 1] ELSE "summary"

\* (variant: a warning also makes the configuration invalid)
validation_summary_strict(V) ==
  [config_file |-> "loaded",
   total_variables |-> Cardinality(DOMAIN V.config),
   validation_results |-> [errors |-> Len(V.errors),
                           warnings |-> Len(V.warnings),
                           info_messages |-> Len(V.info_messages)],
   is_valid |-> (Len(V.errors) = 0 /\ Len(V.warnings) = 0),
   configuration |-> IF V.verbose THEN V.config ELSE EmptyMap]

\* validate_configuration: the summary dictionary.  Its three lists are the
\* validator's own list objects, held by reference (see Errors below), so
\* they are not fields of this record.
validation_summary(V) ==
  [config_file |-> "loaded",
   total_variables |-> Cardinality(DOMAIN V.config),
   validation_results |-> [errors |-> Len(V.errors),
                           warnings |-> Len(V.warnings),
                           info_messages |-> Len(V.info_messages)],
   is_valid |-> (Len(V.errors) = 0),
   configuration |-> IF V.verbose THEN V.config ELSE EmptyMap]

\* validate_configuration: the tuple it returns.
validate_configuration_result(V) ==
  [is_valid |-> (Len(V.errors) = 0), summary |-> validation_summary(V)]

\* (variant: the verdict is not passed on to the exit status)
ExitStatusZero(is_valid) == 0

\* main: the exit status after validate_configuration returned.
ExitStatus(is_valid) == IF is_valid THEN 0 ELSE 1

\* main: the exit status after load_config returned False.
LoadFailureExitStatus == 1

\* ------------------------------------------------------------------------
\* Inputs: the process environment at start and the .env files on disk
\* ------------------------------------------------------------------------
MaxValidators == 2

MaxLoads == 2

MaxRuns == 2

\* A file naming every required variable with a conforming value.
BaseFile ==
     "LOCATION" :> <<"e", "a", "s", "t", "u", "s", "2">>
  @@ "RESOURCE_GROUP" :> <<"r", "g", "-", "a", "i", "-", "0", "1">>
  @@ "KEYVAULT_NAME" :> <<"k", "v", "-", "a", "i", "-", "0", "0", "0", "1">>
  @@ "AI_SERVICES_NAME" :> <<"a", "i", "-", "s", "v", "c", "-", "0", "1">>
  @@ "OPENAI_SERVICE_NAME" :> <<"o", "a", "i", "-", "s", "v", "c", "-", "0", "1">>
  @@ "COGNITIVE_SEARCH_NAME" :> <<"s", "e", "a", "r", "c", "h", "-", "0", "1">>
  @@ "STORAGE_ACCOUNT_NAME" :> <<"s", "t", "o", "r", "a", "g", "e", "0", "0", "1">>
  @@ "CONTAINER_REGISTRY_NAME" :> <<"r", "e", "g", "i", "s", "t", "r", "y", "0", "1">>
  @@ "LOG_WORKSPACE_NAME" :> <<"l", "o", "g", "s", "-", "0", "1">>
  @@ "APPLICATION_INSIGHTS_NAME" :> <<"i", "n", "s", "i", "g", "h", "t", "s", "-", "0", "1">>

\* Entries that produce warnings and an info message but no error.
WarnOverrides ==
     "KEYVAULT_NAME" :> <<"k", "v", "1">>
  @@ "NETWORK_ACCESS" :> <<"P", "r", "i", "v", "a", "t", "e">>
  @@ "OPENAI_SKU" :> <<"S", "0">>
  @@ "RESOURCE_OWNER" :> <<"o", "w", "n", "e", "r">>

\* Entries that produce errors.
BadOverrides ==
     "STORAGE_ACCOUNT_NAME" :> <<"S", "T", "1">>
  @@ "LOCATION" :> <<"W", "e", "s", "t", "U", "S", "3">>
  @@ "DRY_RUN" :> <<"m", "a", "y", "b", "e">>

\* Entries whose value is blank.
BlankOverrides ==
     "LOG_WORKSPACE_NAME" :> <<" ">>
  @@ "NETWORK_ACCESS" :> <<>>

\* Variables exported in the shell before the program starts.
LeakedEnviron ==
     "KEYVAULT_NAME" :> <<"k", "v", "-", "s", "h", "e", "l", "l", "-", "0", "1">>
  @@ "NETWORK_ACCESS" :> <<"i", "n", "t", "e", "r", "n", "a", "l">>

Without(f, k) == [x \in DOMAIN f \ {k} |-> f[x]]

\* The files that exist, by name, as python-dotenv parses them.
FileSystem ==
     "good.env" :> (WarnOverrides @@ BaseFile)
  @@ "bad.env" :> (BadOverrides @@ BaseFile)
  @@ "partial.env" :> Without(BaseFile, "KEYVAULT_NAME")
  @@ "blank.env" :> (BlankOverrides @@ BaseFile)

\* The values of --env-file; "absent.env" names no file.
EnvFiles == DOMAIN FileSystem \cup {"absent.env"}

InitialEnvirons == {EmptyMap, LeakedEnviron}

\* ------------------------------------------------------------------------
\* State
\* ------------------------------------------------------------------------
VARIABLES
  environ,     \* os.environ
  az,          \* how the 'az' tool behaves on this machine
  validators,  \* the EnvironmentValidator objects constructed so far
  pc,          \* position inside the validate_configuration call in progress
  cur,         \* the validator that call runs on (0: none)
  ran,         \* the checks the call in progress (or the last call) has run
  probe,       \* what the 'az' invocations of that call did
  raised,      \* the exception the last call ended with ("none": returned)
  returned,    \* what the validate_configuration calls returned, in order
  loads,       \* the load_config calls so far: file, environment, result
  calls,       \* the number of validate_configuration calls so far
  mainpc,      \* position of main ("none": the class is used as a library)
  args,        \* the parsed command line of main
  reported,    \* what main printed (printed is FALSE before it prints)
  exit_code,   \* the exit status of the process (-1 while it runs)
  cloud,       \* the resources in the subscription (and the az extensions)
  deployer,    \* the AzureAIFoundryDeployer of the deployment run
  issued,      \* the 'az' commands that run has executed, in order
  dpc,         \* position of the deployment script ("unused": not modelled)
  frame,       \* deploy's arguments and locals
  faults,      \* the 'az' invocations that ended unexpectedly so far
  finished,    \* the deployment runs that have ended, in order
  checker,     \* the QualityChecker of run-quality-checks.py
  qpc,         \* position of run-quality-checks.py ("unused": not modelled)
  qframe       \* its command line, the tools it has run, its exit status

vars == <<environ, az, validators, pc, cur, ran, probe, raised, returned, loads,
          calls, mainpc, args, reported, exit_code,
          cloud, deployer, issued, dpc, frame, faults, finished,
          checker, qpc, qframe>>

\* The state of create_ai_foundry_project.py, which the validator never
\* touches.
deployer_vars == <<cloud, deployer, issued, dpc, frame, faults, finished>>

NoDeployer ==
  [dry_run |-> FALSE, created_resources |-> <<>>, existing_resources |-> <<>>]

NoFrame ==
  [config_only |-> FALSE, step |-> 0, success |-> TRUE, cloud_at_start |-> {}]

\* The deployment script is not run.
DeployerUnused ==
  /\ cloud = {}
  /\ deployer = NoDeployer
  /\ issued = <<>>
  /\ dpc = "unused"
  /\ frame = NoFrame
  /\ faults = 0
  /\ finished = <<>>

\* The state of run-quality-checks.py, which the other two programs never
\* touch.
quality_vars == <<checker, qpc, qframe>>

\* QualityChecker.__init__: self.results = {}.
NoChecker == [checks |-> <<>>, summary |-> [total |-> 0, passed |-> 0,
                                            failed |-> 0]]

NoQualityFrame == [json_output |-> FALSE, ran |-> <<>>, exit_code |-> -1]

\* The quality runner is not run.
QualityUnused ==
  /\ checker = NoChecker
  /\ qpc = "unused"
  /\ qframe = NoQualityFrame

NoProbe == [version |-> "not_run", show |-> "not_run", stdout |-> "none"]

NoArgs == [env_file |-> "", verbose |-> FALSE, json_output |-> FALSE]

NoReport == [printed |-> FALSE, is_valid |-> FALSE, errors |-> <<>>]

\* The list objects a returned summary refers to: summary["errors"] is
\* self.errors itself, not a copy, and likewise for the other two lists.
Errors(r) == validators[r.validator].errors

Warnings(r) == validators[r.validator].warnings

InfoMessages(r) == validators[r.validator].info_messages

\* ------------------------------------------------------------------------
\* Operations of the class
\* ------------------------------------------------------------------------
\* EnvironmentValidator(verbose)
Construct(verbose) ==
  /\ pc = "idle"
  /\ Len(validators) < MaxValidators
  /\ validators' = Append(validators, NewValidator(verbose))
  /\ UNCHANGED deployer_vars
  /\ UNCHANGED quality_vars
  /\ UNCHANGED <<environ, az, pc, cur, ran, probe, raised, returned, loads,
                 calls, mainpc, args, reported, exit_code>>

\* load_config(env_file) runs on validators[v]; the entry added to loads
\* keeps the file name, the environment and the errors before the call,
\* and the value returned.
CallLoadConfig(v, env_file) ==
  /\ pc = "idle"
  /\ LET r == load_config(validators[v], env_file, FileSystem, environ)
     IN  /\ validators' = [validators EXCEPT ![v] = r.V]
         /\ environ' = r.env
         /\ loads' = Append(loads, [validator |-> v, env_file |-> env_file,
                                    environ |-> environ, result |-> r.result,
                                    errors_before |-> validators[v].errors])
  /\ UNCHANGED <<az, pc, cur, ran, probe, raised, returned, calls>>

\* validators[v].load_config(env_file) called by a user of the class.
LoadConfig(v, env_file) ==
  /\ Len(loads) < MaxLoads
  /\ CallLoadConfig(v, env_file)
  /\ UNCHANGED deployer_vars
  /\ UNCHANGED quality_vars
  /\ UNCHANGED <<mainpc, args, reported, exit_code>>

\* validate_configuration is entered on validators[v].
EnterValidate(v) ==
  /\ pc = "idle"
  /\ calls' = calls + 1
  /\ pc' = CheckOrder[1]
  /\ cur' = v
  /\ ran' = <<>>
  /\ probe' = NoProbe
  /\ raised' = "none"
  /\ UNCHANGED <<environ, az, validators, returned, loads>>

\* validators[v].validate_configuration() called by a user of the class.
BeginValidate(v) ==
  /\ calls < MaxRuns
  /\ EnterValidate(v)
  /\ UNCHANGED deployer_vars
  /\ UNCHANGED quality_vars
  /\ UNCHANGED <<mainpc, args, reported, exit_code>>

\* One of the six checks that cannot raise.
Check(step, V1) ==
  /\ pc = step
  /\ validators' = [validators EXCEPT ![cur] = V1]
  /\ ran' = Append(ran, step)
  /\ pc' = AfterCheck(step, V1)
  /\ UNCHANGED deployer_vars
  /\ UNCHANGED quality_vars
  /\ UNCHANGED <<environ, az, cur, probe, raised, returned, loads,
                 calls, mainpc, args, reported, exit_code>>

ValidateAzureNaming ==
  pc = "naming" /\ Check("naming", validate_azure_naming(validators[cur]))

ValidateAzureLocation ==
  pc = "location" /\ Check("location", validate_azure_location(validators[cur]))

ValidateSkuConfigurations ==
  pc = "sku" /\ Check("sku", validate_sku_configurations(validators[cur]))

ValidateBooleanValues ==
  pc = "boolean" /\ Check("boolean", validate_boolean_values(validators[cur]))

ValidateNetworkAccess ==
  pc = "network" /\ Check("network", validate_network_access(validators[cur]))

ValidateEmailFormat ==
  pc = "email" /\ Check("email", validate_email_format(validators[cur]))

\* The probe: an exception it does not catch ends validate_configuration.
CheckAzureCliAvailability ==
  /\ pc = "cli"
  /\ LET r == check_azure_cli_availability(validators[cur], az)
     IN  /\ validators' = [validators EXCEPT ![cur] = r.V]
         /\ probe' = az
         /\ ran' = Append(ran, "cli")
         /\ raised' = r.exc
         /\ pc' = IF r.exc = "none" THEN AfterCheck("cli", r.V) ELSE "idle"
  /\ UNCHANGED deployer_vars
  /\ UNCHANGED quality_vars
  /\ UNCHANGED <<environ, az, cur, returned, loads,
                 calls, mainpc, args, reported, exit_code>>

\* validate_configuration builds the summary and returns.  The entry keeps,
\* next to the returned tuple, what the caller sees at that moment: the
\* contents of the three lists, the config and the checks that ran.
ReturnSummary ==
  /\ pc = "summary"
  /\ LET V == validators[cur]
         t == validate_configuration_result(V)
     IN  returned' = Append(returned,
                       [validator |-> cur,
                        is_valid |-> t.is_valid,
                        summary |-> t.summary,
                        errors |-> V.errors,
                        warnings |-> V.warnings,
                        info_messages |-> V.info_messages,
                        config |-> V.config,
                        probe |-> probe,
                        ran |-> ran])
  /\ pc' = "idle"
  /\ UNCHANGED deployer_vars
  /\ UNCHANGED quality_vars
  /\ UNCHANGED <<environ, az, validators, cur, ran, probe, raised, loads,
                 calls, mainpc, args, reported, exit_code>>

\* ------------------------------------------------------------------------
\* The class used as a library: any sequence of calls
\* ------------------------------------------------------------------------
Init ==
  /\ environ \in InitialEnvirons
  /\ az \in ProbeOutcomes
  /\ validators = <<>>
  /\ pc = "idle"
  /\ cur = 0
  /\ ran = <<>>
  /\ probe = NoProbe
  /\ raised = "none"
  /\ returned = <<>>
  /\ loads = <<>>
  /\ calls = 0
  /\ mainpc = "none"
  /\ args = NoArgs
  /\ reported = NoReport
  /\ exit_code = -1
  /\ DeployerUnused
  /\ QualityUnused

Next ==
  \/ Construct(FALSE)
  \/ \E v \in 1..Len(validators), f \in EnvFiles : LoadConfig(v, f)
  \/ \E v \in 1..Len(validators) : BeginValidate(v)
  \/ ValidateAzureNaming
  \/ ValidateAzureLocation
  \/ ValidateSkuConfigurations
  \/ ValidateBooleanValues
  \/ ValidateNetworkAccess
  \/ ValidateEmailFormat
  \/ CheckAzureCliAvailability
  \/ ReturnSummary

Spec == Init /\ [][Next]_vars

\* ------------------------------------------------------------------------
\* main: one validator, one load_config, one validate_configuration
\* ------------------------------------------------------------------------
\* The exit status of the interpreter when an exception reaches the top.
UncaughtExitStatus == 1

\* validator = EnvironmentValidator(verbose=args.verbose)
MainConstruct ==
  /\ mainpc = "start"
  /\ validators' = <<NewValidator(args.verbose)>>
  /\ mainpc' = "load"
  /\ UNCHANGED deployer_vars
  /\ UNCHANGED quality_vars
  /\ UNCHANGED <<environ, az, pc, cur, ran, probe, raised, returned, loads,
                 calls, args, reported, exit_code>>

\* validator.load_config(args.env_file)
MainLoadConfig ==
  /\ mainpc = "load"
  /\ CallLoadConfig(1, args.env_file)
  /\ mainpc' = IF loads'[Len(loads')].result THEN "validate" ELSE "load_failed"
  /\ UNCHANGED deployer_vars
  /\ UNCHANGED quality_vars
  /\ UNCHANGED <<args, reported, exit_code>>

\* The branch taken when load_config returned False: print the errors with
\* is_valid False (as JSON or on the console) and exit.
MainLoadFailed ==
  /\ mainpc = "load_failed"
  /\ reported' = [printed |-> TRUE, is_valid |-> FALSE,
                  errors |-> validators[1].errors]
  /\ exit_code' = LoadFailureExitStatus
  /\ mainpc' = "exited"
  /\ UNCHANGED deployer_vars
  /\ UNCHANGED quality_vars
  /\ UNCHANGED <<environ, az, validators, pc, cur, ran, probe, raised,
                 returned, loads, calls, args>>

\* is_valid, summary = validator.validate_configuration(): the call.
MainValidate ==
  /\ mainpc = "validate"
  /\ EnterValidate(1)
  /\ mainpc' = "validating"
  /\ UNCHANGED deployer_vars
  /\ UNCHANGED quality_vars
  /\ UNCHANGED <<args, reported, exit_code>>

\* The summary is printed (json.dumps or print_validation_results) and the
\* process exits with the status of the returned is_valid.
MainOutput ==
  /\ mainpc = "validating"
  /\ pc = "idle"
  /\ raised = "none"
  /\ LET r == returned[Len(returned)]
     IN  /\ reported' = [printed |-> TRUE, is_valid |-> r.summary.is_valid,
                         errors |-> Errors(r)]
         /\ exit_code' = ExitStatus(r.is_valid)
  /\ mainpc' = "exited"
  /\ UNCHANGED deployer_vars
  /\ UNCHANGED quality_vars
  /\ UNCHANGED <<environ, az, validators, pc, cur, ran, probe, raised,
                 returned, loads, calls, args>>

\* validate_configuration raised: nothing is printed but the traceback.
MainUncaught ==
  /\ mainpc = "validating"
  /\ pc = "idle"
  /\ raised # "none"
  /\ exit_code' = UncaughtExitStatus
  /\ mainpc' = "exited"
  /\ UNCHANGED deployer_vars
  /\ UNCHANGED quality_vars
  /\ UNCHANGED <<environ, az, validators, pc, cur, ran, probe, raised,
                 returned, loads, calls, args, reported>>

Args == [env_file : EnvFiles, verbose : BOOLEAN, json_output : BOOLEAN]

InitMain ==
  /\ environ \in InitialEnvirons
  /\ az \in ProbeOutcomes
  /\ validators = <<>>
  /\ pc = "idle"
  /\ cur = 0
  /\ ran = <<>>
  /\ probe = NoProbe
  /\ raised = "none"
  /\ returned = <<>>
  /\ loads = <<>>
  /\ calls = 0
  /\ mainpc = "start"
  /\ args \in Args
  /\ reported = NoReport
  /\ exit_code = -1
  /\ DeployerUnused
  /\ QualityUnused

NextMain ==
  \/ MainConstruct
  \/ MainLoadConfig
  \/ MainLoadFailed
  \/ MainValidate
  \/ ValidateAzureNaming
  \/ ValidateAzureLocation
  \/ ValidateSkuConfigurations
  \/ ValidateBooleanValues
  \/ ValidateNetworkAccess
  \/ ValidateEmailFormat
  \/ CheckAzureCliAvailability
  \/ ReturnSummary
  \/ MainOutput
  \/ MainUncaught

SpecMain == InitMain /\ [][NextMain]_vars

\* ------------------------------------------------------------------------
\* The naming check on its own: one name varies over every short string and
\* over strings at the length bounds of the rules
\* ------------------------------------------------------------------------
MaxNameLen == 3

NameAlphabet == <<"a", "A", "1", "-", "_", "!">>

RECURSIVE StringsUpTo(_)
StringsUpTo(n) ==
  IF n = 0 THEN {<<>>}
  ELSE LET shorter == StringsUpTo(n - 1)
       IN  shorter \cup {Append(s, NameAlphabet[i]) :
                           s \in shorter, i \in 1..Len(NameAlphabet)}

Repeat(c, n) == [i \in 1..n |-> c]

\* Lengths next to a bound of some rule, and next to the short-name limit.
BoundaryLens ==
  {n \in UNION {{NAMING_PATTERNS[k].min_length + d,
                  NAMING_PATTERNS[k].max_length + d} :
                   k \in DOMAIN NAMING_PATTERNS, d \in {-1, 0, 1}} : n > 0}
  \cup {7, 8}

NamingValues ==
  (StringsUpTo(MaxNameLen) \ {<<>>})
    \cup {Repeat("a", n) : n \in BoundaryLens}

\* Every name set to "-": it fails every pattern and some length bounds.
HyphenNames == [k \in DOMAIN NAMING_PATTERNS |-> <<"-">>]

\* The configs the naming check is run on: one name arbitrary or absent, the
\* other names all conforming or all "-".
NamingConfigs ==
  {(k :> v) @@ others :
     k \in DOMAIN NAMING_PATTERNS, v \in NamingValues,
     others \in {BaseFile, HyphenNames @@ BaseFile}}
  \cup {Without(BaseFile, k) : k \in DOMAIN NAMING_PATTERNS}

InitNaming ==
  /\ environ = EmptyMap
  /\ az = NoProbe
  /\ \E c \in NamingConfigs :
       validators = <<[NewValidator(FALSE) EXCEPT !.config = c]>>
  /\ pc = "naming"
  /\ cur = 1
  /\ ran = <<>>
  /\ probe = NoProbe
  /\ raised = "none"
  /\ returned = <<>>
  /\ loads = <<>>
  /\ calls = 1
  /\ mainpc = "none"
  /\ args = NoArgs
  /\ reported = NoReport
  /\ exit_code = -1
  /\ DeployerUnused
  /\ QualityUnused

NextNaming == ValidateAzureNaming

SpecNaming == InitNaming /\ [][NextNaming]_vars

\* ------------------------------------------------------------------------
\* One validate_configuration call on a fresh validator whose config varies
\* in one key at a time: the region, a SKU, a boolean, the network access
\* level, the owner, or one key absent
\* ------------------------------------------------------------------------
UpperChar(c) ==
  IF c \in Lowers
    THEN UpperLetters[CHOOSE i \in 1..Len(LowerLetters) : LowerLetters[i] = c]
    ELSE c

upper(s) == [i \in 1..Len(s) |-> UpperChar(s[i])]

capitalize(s) == [i \in 1..Len(s) |-> IF i = 1 THEN UpperChar(s[i]) ELSE s[i]]

CaseVariants(values) ==
  values \cup {lower(v) : v \in values} \cup {upper(v) : v \in values}
         \cup {capitalize(v) : v \in values}

UnlistedLocations ==
  {<<"m", "a", "r", "s">>, <<"e", "a", "s", "t", "u", "s", "9">>,
   <<"e", "a", "s", "t", " ", "u", "s">>, <<"E", "U">>}

LocationValues == CaseVariants(DOMAIN AZURE_REGIONS) \cup UnlistedLocations

SkuValues ==
  CaseVariants(UNION {Range(VALID_SKUS[k].valid_values) :
                        k \in DOMAIN VALID_SKUS})
    \cup {<<"G", "o", "l", "d">>}

BooleanValues ==
  CaseVariants({<<"t", "r", "u", "e">>, <<"f", "a", "l", "s", "e">>,
                <<"y", "e", "s">>, <<"m", "a", "y", "b", "e">>})
    \cup {<<"t", "R", "u", "E">>, <<"1">>, <<"0">>, <<"t", "r", "u", "e", " ">>}

NetworkValues ==
  CaseVariants(Range(valid_levels))
    \cup {<<"I", "n", "t", "e", "r", "n", "a", "l">>,
          <<"P", "r", "i", "v", "a", "t", "e", " ">>}

OwnerValues ==
  {<<"a", "@", "b", ".", "i", "o">>, <<"o", "w", "n", "e", "r">>,
   <<"a", "@", "b">>, <<"A", ".", "b", "@", "c", "-", "d", ".", "o", "r", "g">>}

\* Optional settings of every kind: one SKU that is not offered, one with a
\* limitation, one plain; booleans good and bad; a level and an owner.
MixedOverrides ==
  [k \in {"AI_SERVICES_SKU", "SEARCH_SKU", "STORAGE_SKU", "DRY_RUN",
          "VERBOSE_LOGGING", "ENABLE_DIAGNOSTICS", "NETWORK_ACCESS",
          "RESOURCE_OWNER"} |->
     CASE k = "AI_SERVICES_SKU" -> <<"S", "9">>
       [] k = "SEARCH_SKU" -> <<"f", "r", "e", "e">>
       [] k = "STORAGE_SKU" -> <<"S", "t", "a", "n", "d", "a", "r", "d", "_",
                                 "G", "R", "S">>
       [] k = "DRY_RUN" -> <<"T", "r", "u", "e">>
       [] k = "VERBOSE_LOGGING" -> <<"o", "n">>
       [] k = "ENABLE_DIAGNOSTICS" -> <<"f", "a", "l", "s", "e">>
       [] k = "NETWORK_ACCESS" -> Restricted
       [] OTHER -> <<"a", "@", "b", ".", "i", "o">>]

\* Names with two or more hyphens in a row, of a length every rule allows.
ConsecutiveHyphenNames ==
  {<<"a", "-", "-", "b", "1">>, <<"k", "v", "-", "-", "0", "1">>,
   <<"a", "b", "-", "-", "-", "c", "d", "0", "1", "2">>}

Backgrounds ==
  {BaseFile, Without(BaseFile, "OPENAI_SERVICE_NAME"),
   MixedOverrides @@ BaseFile, MixedOverrides @@ HyphenNames}

CheckConfigs ==
  {("LOCATION" :> v) @@ bg : v \in LocationValues, bg \in Backgrounds}
  \cup {(k :> v) @@ bg :
          k \in DOMAIN VALID_SKUS, v \in SkuValues, bg \in Backgrounds}
  \cup {(boolean_vars[i] :> v) @@ bg :
          i \in 1..Len(boolean_vars), v \in BooleanValues, bg \in Backgrounds}
  \cup {("NETWORK_ACCESS" :> v) @@ bg : v \in NetworkValues, bg \in Backgrounds}
  \cup {("RESOURCE_OWNER" :> v) @@ bg : v \in OwnerValues, bg \in Backgrounds}
  \cup {(k :> v) @@ bg :
          k \in DOMAIN NAMING_PATTERNS, v \in ConsecutiveHyphenNames,
          bg \in Backgrounds}
  \cup UNION {{Without(bg, k) : k \in DOMAIN bg} : bg \in Backgrounds}
  \cup {EmptyMap}

\* 'az --version' ends with a nonzero status: the probe adds one warning.
CliAbsent == [version |-> "nonzero", show |-> "not_run", stdout |-> "none"]

InitChecks ==
  /\ environ = EmptyMap
  /\ az = CliAbsent
  /\ \E c \in CheckConfigs :
       validators = <<[NewValidator(FALSE) EXCEPT !.config = c]>>
  /\ pc = "naming"
  /\ cur = 1
  /\ ran = <<>>
  /\ probe = NoProbe
  /\ raised = "none"
  /\ returned = <<>>
  /\ loads = <<>>
  /\ calls = 1
  /\ mainpc = "none"
  /\ args = NoArgs
  /\ reported = NoReport
  /\ exit_code = -1
  /\ DeployerUnused
  /\ QualityUnused

NextChecks ==
  \/ ValidateAzureNaming
  \/ ValidateAzureLocation
  \/ ValidateSkuConfigurations
  \/ ValidateBooleanValues
  \/ ValidateNetworkAccess
  \/ ValidateEmailFormat
  \/ CheckAzureCliAvailability
  \/ ReturnSummary

SpecChecks == InitChecks /\ [][NextChecks]_vars

\* ------------------------------------------------------------------------
\* create_ai_foundry_project.py: AzureAIFoundryDeployer and main
\* ------------------------------------------------------------------------
\* How an 'az' invocation can end: exit status 0 with a JSON document on
\* stdout, with nothing on stdout, or with text that is not JSON; a nonzero
\* status with "not found" in stderr, or any other nonzero status.
ExitZero == {"json", "empty", "not_json"}

\* The ways an invocation can end other than the expected one.
AzFaults == {"error", "empty", "not_json"}

MaxFaults == 1

MaxDeploys == 2

RECURSIVE Plans(_, _)
\* The assignments of at most b unexpected endings to the invocations 1..n of
\* one step.
Plans(n, b) ==
  IF n = 0 \/ b = 0 THEN {EmptyMap}
  ELSE Plans(n - 1, b)
         \cup {(n :> f) @@ p : f \in AzFaults, p \in Plans(n - 1, b - 1)}

\* How invocation number slot ends: as planned, or as expected.
Outcome(plan, slot) == IF slot \in DOMAIN plan THEN plan[slot] ELSE "json"

\* How a 'show' of a resource ends: it succeeds if the resource exists and
\* reports "not found" if it does not, unless the invocation fails otherwise.
QueryOutcome(plan, slot, exists) ==
  IF slot \in DOMAIN plan
    THEN IF exists THEN plan[slot] ELSE "error"
    ELSE IF exists THEN "json" ELSE "not_found"

Cmd(verb, target) == [verb |-> verb, target |-> target]

\* The commands that create or modify something.
Mutating(cmd) ==
  cmd.verb \in {"create", "extension_add", "role_assignment_create",
                "secret_set"}

\* (variant: dry_run is not consulted)
run_az_command_always(dry_run, check_exists, outcome) ==
  [executed |-> TRUE,
   result |-> CASE outcome = "json" -> "parsed"
                [] outcome = "empty" -> "empty"
                [] outcome = "not_json" -> "success"
                [] OTHER -> "none"]

\* run_az_command: whether 'az' is invoked, and the kind of value returned:
\* {"dry_run": True}, the parsed output, {}, {"success": True} or None.
run_az_command(dry_run, check_exists, outcome) ==
  IF dry_run /\ ~check_exists
    THEN [executed |-> FALSE, result |-> "dry_run"]
    ELSE [executed |-> TRUE,
          result |-> CASE outcome = "json" -> "parsed"
                       [] outcome = "empty" -> "empty"
                       [] outcome = "not_json" -> "success"
                       [] OTHER -> "none"]

\* bool(result) for the values run_az_command returns.
Truthy(result) == result \in {"dry_run", "parsed", "success"}

\* What an executed invocation does: it is on record, and a create or an
\* extension add that exits with status 0 has taken effect.
Effect(T, cmd, outcome) ==
  [T EXCEPT !.issued = Append(@, cmd),
            !.cloud = IF cmd.verb \in {"create", "extension_add"}
                           /\ outcome \in ExitZero
                        THEN @ \cup {cmd.target} ELSE @]

\* self.run_az_command(cmd, check_exists) in the state T.
Exec(T, dry_run, check_exists, cmd, outcome) ==
  LET r == run_az_command(dry_run, check_exists, outcome)
  IN  [T |-> IF r.executed THEN Effect(T, cmd, outcome) ELSE T,
       result |-> r.result]

\* subprocess.run(["az", ...], check=True) outside run_az_command: ok is
\* FALSE when it raises CalledProcessError.
Subprocess(T, cmd, outcome) ==
  [T |-> Effect(T, cmd, outcome), ok |-> outcome \in ExitZero]

\* resource_exists: the 'show' of the resource, and result is not None.
resource_exists(T, dry_run, name, outcome) ==
  LET q == Exec(T, dry_run, TRUE, Cmd("show", name), outcome)
  IN  [T |-> q.T, exists |-> q.result # "none"]

\* The body shared by the create_* methods: skip a resource that exists,
\* else create it and record it when the result is truthy.
create_or_skip(T, dry_run, name, plan, slot) ==
  LET q == resource_exists(T, dry_run, name,
                           QueryOutcome(plan, slot, name \in T.cloud))
  IN  IF q.exists
        THEN [T |-> [q.T EXCEPT !.existing_resources = Append(@, name)],
              ok |-> TRUE, raised |-> FALSE]
        ELSE LET c == Exec(q.T, dry_run, FALSE, Cmd("create", name),
                           Outcome(plan, slot + 1))
             IN  [T |-> IF Truthy(c.result)
                          THEN [c.T EXCEPT !.created_resources =
                                             Append(@, name)]
                          ELSE c.T,
                  ok |-> Truthy(c.result), raised |-> FALSE]

create_resource_group(T, dry_run, plan) ==
  create_or_skip(T, dry_run, "Resource Group", plan, 1)

create_general_ai_services(T, dry_run, plan) ==
  create_or_skip(T, dry_run, "General AI Services", plan, 1)

create_openai_service(T, dry_run, plan) ==
  create_or_skip(T, dry_run, "OpenAI Service", plan, 1)

create_cognitive_search(T, dry_run, plan) ==
  create_or_skip(T, dry_run, "Cognitive Search", plan, 1)

create_key_vault(T, dry_run, plan) ==
  create_or_skip(T, dry_run, "Key Vault", plan, 1)

SupportingResources ==
  <<"App Configuration", "Log Analytics", "Container Registry",
    "Storage Account">>

RECURSIVE SupportingFrom(_, _, _, _, _)
\* The loop of create_supporting_resources from the i-th resource on.
SupportingFrom(T, dry_run, plan, i, success) ==
  IF i > Len(SupportingResources)
    THEN [T |-> T, ok |-> success, raised |-> FALSE]
    ELSE LET r == create_or_skip(T, dry_run, SupportingResources[i], plan,
                                 2 * i - 1)
         IN  SupportingFrom(r.T, dry_run, plan, i + 1, success /\ r.ok)

create_supporting_resources(T, dry_run, plan) ==
  SupportingFrom(T, dry_run, plan, 1, TRUE)

create_application_insights(T, dry_run, plan) ==
  create_or_skip(T, dry_run, "Application Insights", plan, 1)

MlExtension == "ml extension"

\* get_subscription_id: without dry_run it asks 'az account show' and goes
\* on with "unknown" when that fails.
get_subscription_id(T, dry_run, outcome) ==
  IF dry_run THEN T
  ELSE Subprocess(T, Cmd("account_show", "id"), outcome).T

\* create_ml_workspace: without dry_run, install the ml extension if 'az
\* extension show' fails (a failing install raises); then create or skip.
create_ml_workspace(T, dry_run, plan) ==
  LET shown == Subprocess(T, Cmd("extension_show", MlExtension),
                          IF MlExtension \in T.cloud
                            THEN Outcome(plan, 1) ELSE "error")
      added == Subprocess(shown.T, Cmd("extension_add", MlExtension),
                          Outcome(plan, 2))
      ext == IF dry_run THEN [T |-> T, raised |-> FALSE]
             ELSE IF shown.ok THEN [T |-> shown.T, raised |-> FALSE]
             ELSE [T |-> added.T, raised |-> ~added.ok]
      q == resource_exists(ext.T, dry_run, "ML Workspace",
             QueryOutcome(plan, 3, "ML Workspace" \in ext.T.cloud))
      c == Exec(get_subscription_id(q.T, dry_run, Outcome(plan, 4)),
                dry_run, FALSE, Cmd("create", "ML Workspace"),
                Outcome(plan, 5))
  IN  IF ext.raised THEN [T |-> ext.T, ok |-> FALSE, raised |-> TRUE]
      ELSE IF q.exists
        THEN [T |-> [q.T EXCEPT !.existing_resources =
                                  Append(@, "ML Workspace")],
              ok |-> TRUE, raised |-> FALSE]
        ELSE [T |-> IF Truthy(c.result)
                      THEN [c.T EXCEPT !.created_resources =
                                         Append(@, "ML Workspace")]
                      ELSE c.T,
              ok |-> Truthy(c.result), raised |-> FALSE]

\* create_app_service: the plan, then the web app; it returns True whatever
\* the two creations did.
create_app_service(T, dry_run, plan) ==
  LET p == create_or_skip(T, dry_run, "App Service Plan", plan, 1)
      w == create_or_skip(p.T, dry_run, "Web App", plan, 3)
  IN  [T |-> w.T, ok |-> TRUE, raised |-> FALSE]

\* The resources the nine steps of deploy create.
DeployResources ==
  {"Resource Group", "General AI Services", "OpenAI Service",
   "Cognitive Search", "Key Vault", "Application Insights", "ML Workspace",
   "App Service Plan", "Web App"} \cup Range(SupportingResources)

\* steps[i] of deploy, and the number of 'az' invocations it can make.
step_func(i, T, dry_run, plan) ==
  CASE i = 1 -> create_resource_group(T, dry_run, plan)
    [] i = 2 -> create_general_ai_services(T, dry_run, plan)
    [] i = 3 -> create_openai_service(T, dry_run, plan)
    [] i = 4 -> create_cognitive_search(T, dry_run, plan)
    [] i = 5 -> create_key_vault(T, dry_run, plan)
    [] i = 6 -> create_supporting_resources(T, dry_run, plan)
    [] i = 7 -> create_application_insights(T, dry_run, plan)
    [] i = 8 -> create_ml_workspace(T, dry_run, plan)
    [] OTHER -> create_app_service(T, dry_run, plan)

StepSlots == <<2, 2, 2, 2, 2, 8, 2, 5, 4>>

\* verify_general_ai_services_capabilities: one 'show' outside dry_run.
verify_general_ai_services_capabilities(T, dry_run, plan) ==
  IF dry_run THEN T
  ELSE Exec(T, dry_run, FALSE, Cmd("show", "General AI Services"),
            Outcome(plan, 1)).T

RoleCmd(role, scope, assignee) ==
  [verb |-> "role_assignment_create", target |-> role, scope |-> scope,
   assignee |-> assignee]

RECURSIVE RoleAttempts(_, _, _, _, _, _)
\* The retry loop of assign_role_to_user from the given attempt on; the
\* time.sleep(10) between two attempts is on record with the commands.
RoleAttempts(T, cmd, plan, slot, attempt, max_attempts) ==
  LET c == Exec(T, FALSE, FALSE, cmd, Outcome(plan, slot + attempt))
      slept == [c.T EXCEPT !.issued = Append(@, Cmd("sleep", "10"))]
  IN  IF Truthy(c.result) THEN [T |-> c.T, ok |-> TRUE]
      ELSE IF attempt < max_attempts - 1
        THEN RoleAttempts(slept, cmd, plan, slot, attempt + 1, max_attempts)
        ELSE [T |-> c.T, ok |-> FALSE]

assign_role_to_user(T, dry_run, cmd, is_service_principal, plan, slot) ==
  IF dry_run THEN [T |-> T, ok |-> TRUE]
  ELSE RoleAttempts(T, cmd, plan, slot, 0,
                    IF is_service_principal THEN 3 ELSE 1)

user_roles ==
  <<[role |-> "Cognitive Services OpenAI User", scope |-> "OpenAI Service"],
    [role |-> "Cognitive Services User", scope |-> "General AI Services"],
    [role |-> "Search Service Contributor", scope |-> "Cognitive Search"],
    [role |-> "Key Vault Administrator", scope |-> "Key Vault"],
    [role |-> "Storage Blob Data Contributor", scope |-> "Storage Account"]>>

app_roles ==
  <<[role |-> "Cognitive Services OpenAI User", scope |-> "OpenAI Service"],
    [role |-> "Cognitive Services User", scope |-> "General AI Services"],
    [role |-> "Search Index Data Reader", scope |-> "Cognitive Search"],
    [role |-> "Key Vault Secrets User", scope |-> "Key Vault"],
    [role |-> "Storage Blob Data Reader", scope |-> "Storage Account"]>>

RECURSIVE RolesFrom(_, _, _, _, _, _, _, _, _)
\* A loop of setup_permissions over a list of roles, from the i-th on; each
\* role has 'per' invocation slots from 'slot' on.
RolesFrom(T, dry_run, roles, assignee, is_sp, plan, slot, i, success) ==
  IF i > Len(roles) THEN [T |-> T, ok |-> success]
  ELSE LET per == IF is_sp THEN 3 ELSE 1
           r == assign_role_to_user(
                  T, dry_run, RoleCmd(roles[i].role, roles[i].scope, assignee),
                  is_sp, plan, slot + per * (i - 1))
       IN  RolesFrom(r.T, dry_run, roles, assignee, is_sp, plan, slot, i + 1,
                     success /\ r.ok)

ManagedIdentity == "Managed Identity"

\* create_managed_identity: for an identity that exists, the id is asked
\* for with 'identity show ... -o tsv'; run_az_command returns a dict, a
\* list or None, never the str the method wants, so the method returns None.
\* A created identity gives its principalId when the create printed the JSON
\* document.
create_managed_identity(T, dry_run, plan, slot) ==
  LET q == resource_exists(T, dry_run, ManagedIdentity,
             QueryOutcome(plan, slot, ManagedIdentity \in T.cloud))
      s == Exec(q.T, dry_run, FALSE, Cmd("show", ManagedIdentity),
                Outcome(plan, slot + 1))
      c == Exec(q.T, dry_run, FALSE, Cmd("create", ManagedIdentity),
                Outcome(plan, slot + 1))
  IN  IF q.exists THEN [T |-> s.T, principal_id |-> "None"]
      ELSE IF c.result = "parsed"
        THEN [T |-> [c.T EXCEPT !.created_resources =
                                  Append(@, ManagedIdentity)],
              principal_id |-> "app-principal"]
        ELSE [T |-> c.T, principal_id |-> "None"]

\* get_current_user_object_id: "unknown" when the query fails.
get_current_user_object_id(T, dry_run, outcome) ==
  IF dry_run THEN [T |-> T, id |-> "user-object-id"]
  ELSE LET s == Subprocess(T, Cmd("signed_in_user_show", "id"), outcome)
       IN  [T |-> s.T, id |-> IF s.ok THEN "user" ELSE "unknown"]

\* The 'az' invocations setup_permissions can make: two id queries, one per
\* user role, two for the identity, three attempts per application role.
PermissionSlots == 2 + Len(user_roles) + 2 + 3 * Len(app_roles)

setup_permissions(T, dry_run, plan) ==
  LET u == get_current_user_object_id(T, dry_run, Outcome(plan, 1))
      s == get_subscription_id(u.T, dry_run, Outcome(plan, 2))
      r == RolesFrom(s, dry_run, user_roles, u.id, FALSE, plan, 3, 1, TRUE)
      m == create_managed_identity(r.T, dry_run, plan, 3 + Len(user_roles))
      a == RolesFrom(m.T, dry_run, app_roles, m.principal_id, TRUE, plan,
                     5 + Len(user_roles), 1, r.ok)
  IN  IF m.principal_id # "None" THEN a ELSE [T |-> m.T, ok |-> r.ok]

\* The 'az' queries store_secrets_in_keyvault makes, in order.
SecretQueries ==
  <<Cmd("show", "OpenAI Service"), Cmd("keys_list", "OpenAI Service"),
    Cmd("show", "General AI Services"),
    Cmd("keys_list", "General AI Services"),
    Cmd("admin_key_show", "Cognitive Search"),
    Cmd("query_key_list", "Cognitive Search"),
    Cmd("keys_list", "Storage Account"),
    Cmd("show", "Application Insights")>>

\* all_config: each entry with the query its value is read from (0: the
\* value is built from the configuration or is a literal).
all_config ==
  <<[name |-> "ai-foundry-project-endpoint", from |-> 0],
    [name |-> "ai-services-endpoint", from |-> 0],
    [name |-> "ai-services-key", from |-> 2],
    [name |-> "ai-services-name", from |-> 0],
    [name |-> "general-ai-services-endpoint", from |-> 0],
    [name |-> "general-ai-services-key", from |-> 4],
    [name |-> "general-ai-services-name", from |-> 0],
    [name |-> "cognitive-search-endpoint", from |-> 0],
    [name |-> "cognitive-search-admin-key", from |-> 5],
    [name |-> "cognitive-search-query-key", from |-> 6],
    [name |-> "cognitive-search-name", from |-> 0],
    [name |-> "speechtotext-endpoint", from |-> 0],
    [name |-> "texttospeech-endpoint", from |-> 0],
    [name |-> "translator-endpoint", from |-> 0],
    [name |-> "keyvault-name", from |-> 0],
    [name |-> "keyvault-uri", from |-> 0],
    [name |-> "storage-account-name", from |-> 0],
    [name |-> "storage-account-key", from |-> 7],
    [name |-> "storage-blob-endpoint", from |-> 0],
    [name |-> "application-insights-name", from |-> 0],
    [name |-> "application-insights-instrumentation-key", from |-> 8],
    [name |-> "application-insights-connection-string", from |-> 8],
    [name |-> "container-registry-name", from |-> 0],
    [name |-> "container-registry-server", from |-> 0],
    [name |-> "app-config-name", from |-> 0],
    [name |-> "app-config-endpoint", from |-> 0],
    [name |-> "log-workspace-name", from |-> 0],
    [name |-> "ml-workspace-name", from |-> 0],
    [name |-> "resource-group", from |-> 0],
    [name |-> "location", from |-> 0],
    [name |-> "project-tag", from |-> 0],
    [name |-> "api-base-url", from |-> 0],
    [name |-> "openapi-spec-url", from |-> 0],
    [name |-> "web-app-name", from |-> 0],
    [name |-> "azure-openai-api-version", from |-> 0],
    [name |-> "azure-openai-deployment-gpt", from |-> 0],
    [name |-> "azure-openai-deployment-embedding", from |-> 0],
    [name |-> "azure-openai-deployment-whisper", from |-> 0],
    [name |-> "azure-openai-deployment-tts", from |-> 0],
    [name |-> "flask-secret-key", from |-> 0]>>

RECURSIVE QueriesFrom(_, _, _, _)
\* The queries of store_secrets_in_keyvault from the i-th on: the state
\* after them and what each returned.
QueriesFrom(T, plan, i, results) ==
  IF i > Len(SecretQueries) THEN [T |-> T, results |-> results]
  ELSE LET q == Exec(T, FALSE, FALSE, SecretQueries[i], Outcome(plan, i))
       IN  QueriesFrom(q.T, plan, i + 1, Append(results, q.result))

\* The loop over all_config: a value that is read from a query is empty
\* unless the query returned the parsed document; every other entry is set
\* with its own 'az keyvault secret set', and the method returns whether
\* one of them gave a truthy result.
StoreEntries(T, plan, results) ==
  LET n == Len(all_config)
      NonEmpty(i) == all_config[i].from = 0
                       \/ results[all_config[i].from] = "parsed"
      set == SelectSeq([i \in 1..n |-> i], NonEmpty)
      run(i) == run_az_command(FALSE, FALSE,
                               Outcome(plan, Len(SecretQueries) + i))
      Executed(i) == run(i).executed
      done == SelectSeq(set, Executed)
      success_count ==
        Cardinality({k \in 1..Len(set) : Truthy(run(set[k]).result)})
  IN  [T |-> [T EXCEPT !.issued = @ \o
                [k \in 1..Len(done) |->
                   Cmd("secret_set", all_config[done[k]].name)]],
       ok |-> success_count > 0]

SecretSlots == Len(SecretQueries) + Len(all_config)

store_secrets_in_keyvault(T, dry_run, plan) ==
  IF dry_run THEN [T |-> T, ok |-> TRUE]
  ELSE LET q == QueriesFrom(T, plan, 1, <<>>)
       IN  StoreEntries(q.T, plan, q.results)

\* ------------------------------------------------------------------------
\* Runs of the deployment script
\* ------------------------------------------------------------------------
\* The deployer's lists, the commands of the run and the subscription, as
\* one value the methods above transform.
Current ==
  [cloud |-> cloud, issued |-> issued,
   created_resources |-> deployer.created_resources,
   existing_resources |-> deployer.existing_resources]

\* The state T takes effect.
Becomes(T) ==
  /\ cloud' = T.cloud
  /\ issued' = T.issued
  /\ deployer' = [deployer EXCEPT
                    !.created_resources = T.created_resources,
                    !.existing_resources = T.existing_resources]

ValidatorUnused ==
  /\ environ = EmptyMap
  /\ az = NoProbe
  /\ validators = <<>>
  /\ pc = "idle"
  /\ cur = 0
  /\ ran = <<>>
  /\ probe = NoProbe
  /\ raised = "none"
  /\ returned = <<>>
  /\ loads = <<>>
  /\ calls = 0
  /\ mainpc = "none"
  /\ args = NoArgs
  /\ reported = NoReport
  /\ exit_code = -1

validator_vars ==
  <<environ, az, validators, pc, cur, ran, probe, raised, returned, loads,
    calls, mainpc, args, reported, exit_code>>

\* The process ends: what the run did is kept.
Finish(T, outcome, status) ==
  /\ finished' = Append(finished,
                   [dry_run |-> deployer.dry_run,
                    config_only |-> frame.config_only,
                    outcome |-> outcome,
                    exit_status |-> status,
                    created_resources |-> T.created_resources,
                    existing_resources |-> T.existing_resources,
                    issued |-> T.issued,
                    cloud_before |-> frame.cloud_at_start,
                    cloud_after |-> T.cloud])
  /\ dpc' = "idle"

\* main up to the construction of the deployer: the command line is parsed,
\* .env and the configuration are read.
DeployerMain(dry_run, config_only) ==
  /\ dpc = "idle"
  /\ Len(finished) < MaxDeploys
  /\ deployer' = [NoDeployer EXCEPT !.dry_run = dry_run]
  /\ frame' = [config_only |-> config_only, step |-> 1, success |-> TRUE,
               cloud_at_start |-> cloud]
  /\ issued' = <<>>
  /\ dpc' = "auth"
  /\ UNCHANGED <<cloud, faults, finished>>
  /\ UNCHANGED validator_vars
  /\ UNCHANGED quality_vars

\* main: 'az account show'; a failure ends the process with status 1,
\* otherwise deploy is entered.
CheckAuthentication ==
  /\ dpc = "auth"
  /\ \E plan \in Plans(1, MaxFaults - faults) :
       LET s == Subprocess(Current, Cmd("account_show", "login"),
                           Outcome(plan, 1))
       IN  /\ Becomes(s.T)
           /\ faults' = faults + Cardinality(DOMAIN plan)
           /\ IF s.ok
                THEN /\ dpc' = IF frame.config_only THEN "secrets" ELSE "steps"
                     /\ UNCHANGED finished
                ELSE Finish(s.T, "not_logged_in", 1)
  /\ UNCHANGED frame
  /\ UNCHANGED validator_vars
  /\ UNCHANGED quality_vars

\* Where deploy goes after the nine steps.
AfterSteps(success, dry_run) ==
  IF success /\ ~dry_run THEN "verify"
  ELSE IF success THEN "secrets" ELSE "return"

\* One iteration of the loop over steps in deploy.
DeployStep(i) ==
  /\ dpc = "steps"
  /\ frame.step = i
  /\ \E plan \in Plans(StepSlots[i], MaxFaults - faults) :
       LET r == step_func(i, Current, deployer.dry_run, plan)
           success == frame.success /\ r.ok
       IN  /\ Becomes(r.T)
           /\ faults' = faults + Cardinality(DOMAIN plan)
           /\ IF r.raised
                THEN /\ Finish(r.T, "uncaught", 1)
                     /\ UNCHANGED frame
                ELSE /\ frame' = [frame EXCEPT !.step = i + 1,
                                               !.success = success]
                     /\ dpc' = IF i < Len(StepSlots) THEN "steps"
                               ELSE AfterSteps(success, deployer.dry_run)
                     /\ UNCHANGED finished
  /\ UNCHANGED validator_vars
  /\ UNCHANGED quality_vars

\* deploy: the capabilities are verified; what the method returns is dropped.
VerifyCapabilities ==
  /\ dpc = "verify"
  /\ \E plan \in Plans(1, MaxFaults - faults) :
       /\ Becomes(verify_general_ai_services_capabilities(
                     Current, deployer.dry_run, plan))
       /\ faults' = faults + Cardinality(DOMAIN plan)
  /\ dpc' = "permissions"
  /\ UNCHANGED <<frame, finished>>
  /\ UNCHANGED validator_vars
  /\ UNCHANGED quality_vars

\* deploy: setup_permissions; a failure clears success.
SetupPermissions ==
  /\ dpc = "permissions"
  /\ \E plan \in Plans(PermissionSlots, MaxFaults - faults) :
       LET r == setup_permissions(Current, deployer.dry_run, plan)
       IN  /\ Becomes(r.T)
           /\ faults' = faults + Cardinality(DOMAIN plan)
           /\ frame' = [frame EXCEPT !.success = r.ok]
           /\ dpc' = IF r.ok THEN "secrets" ELSE "return"
  /\ UNCHANGED finished
  /\ UNCHANGED validator_vars
  /\ UNCHANGED quality_vars

\* deploy: store_secrets_in_keyvault, whose result is what deploy returns
\* with config_only and is dropped otherwise.
StoreSecrets ==
  /\ dpc = "secrets"
  /\ \E plan \in Plans(IF deployer.dry_run THEN 0 ELSE SecretSlots,
                        MaxFaults - faults) :
       LET r == store_secrets_in_keyvault(Current, deployer.dry_run, plan)
       IN  /\ Becomes(r.T)
           /\ faults' = faults + Cardinality(DOMAIN plan)
           /\ frame' = [frame EXCEPT
                          !.success = IF frame.config_only THEN r.ok ELSE @]
  /\ dpc' = "return"
  /\ UNCHANGED finished
  /\ UNCHANGED validator_vars
  /\ UNCHANGED quality_vars

\* deploy returns; main prints the summary and exits with 0 on success and
\* 1 otherwise.
MainExit ==
  /\ dpc = "return"
  /\ Finish(Current, IF frame.success THEN "success" ELSE "errors",
            IF frame.success THEN 0 ELSE 1)
  /\ UNCHANGED <<cloud, deployer, issued, frame, faults>>
  /\ UNCHANGED validator_vars
  /\ UNCHANGED quality_vars

\* The subscription before the first run: empty, partly provisioned, or
\* fully provisioned.
InitialClouds ==
  {{}, {"Resource Group", "Key Vault", MlExtension},
   DeployResources \cup {MlExtension, ManagedIdentity}}

InitDeploy ==
  /\ ValidatorUnused
  /\ cloud \in InitialClouds
  /\ deployer = NoDeployer
  /\ issued = <<>>
  /\ dpc = "idle"
  /\ frame = NoFrame
  /\ faults = 0
  /\ finished = <<>>
  /\ QualityUnused

NextDeploy ==
  \/ \E dry_run \in BOOLEAN, config_only \in BOOLEAN :
       DeployerMain(dry_run, config_only)
  \/ CheckAuthentication
  \/ \E i \in 1..Len(StepSlots) : DeployStep(i)
  \/ VerifyCapabilities
  \/ SetupPermissions
  \/ StoreSecrets
  \/ MainExit

SpecDeploy == InitDeploy /\ [][NextDeploy]_vars

\* ------------------------------------------------------------------------
\* One method of the deployer called on its own, on a deployer whose 'az'
\* behaves in a way fixed in advance: az maps the number of an invocation to
\* how it ends ("json" for the invocations it does not name)
\* ------------------------------------------------------------------------
\* The behaviours of 'az': a few invocations end unexpectedly, or every
\* 'secret set' ends in the same unexpected way, or the three attempts of a
\* role assignment end in any way.
CallPlans ==
  Plans(SecretSlots, MaxFaults)
    \cup {[slot \in (Len(SecretQueries) + 1)..SecretSlots |-> f] :
            f \in AzFaults}
    \cup [1..3 -> AzFaults \cup {"json"}]

InitCalls ==
  /\ environ = EmptyMap
  /\ az \in CallPlans
  /\ validators = <<>>
  /\ pc = "idle"
  /\ cur = 0
  /\ ran = <<>>
  /\ probe = NoProbe
  /\ raised = "none"
  /\ returned = <<>>
  /\ loads = <<>>
  /\ calls = 0
  /\ mainpc = "none"
  /\ args = NoArgs
  /\ reported = NoReport
  /\ exit_code = -1
  /\ cloud = DeployResources \cup {MlExtension, ManagedIdentity}
  /\ \E dry_run \in BOOLEAN : deployer = [NoDeployer EXCEPT !.dry_run = dry_run]
  /\ issued = <<>>
  /\ dpc = "call"
  /\ frame = NoFrame
  /\ faults = 0
  /\ finished = <<>>
  /\ QualityUnused

\* self.store_secrets_in_keyvault(); frame.success keeps what it returned.
CallStoreSecrets ==
  /\ dpc = "call"
  /\ LET r == store_secrets_in_keyvault(Current, deployer.dry_run, az)
     IN  /\ Becomes(r.T)
         /\ frame' = [frame EXCEPT !.success = r.ok]
  /\ dpc' = "stored"
  /\ UNCHANGED <<faults, finished>>
  /\ UNCHANGED validator_vars
  /\ UNCHANGED quality_vars

\* self.assign_role_to_user(role, scope, assignee, is_service_principal) as
\* setup_permissions calls it: for the user, or for the identity of the
\* applications as a service principal.
CallAssignRole(i, is_service_principal) ==
  /\ dpc = "call"
  /\ LET roles == IF is_service_principal THEN app_roles ELSE user_roles
         assignee == IF is_service_principal THEN "app-principal" ELSE "user"
         r == assign_role_to_user(
                Current, deployer.dry_run,
                RoleCmd(roles[i].role, roles[i].scope, assignee),
                is_service_principal, az, 1)
     IN  /\ Becomes(r.T)
         /\ frame' = [frame EXCEPT !.success = r.ok]
  /\ dpc' = "assigned"
  /\ UNCHANGED <<faults, finished>>
  /\ UNCHANGED validator_vars
  /\ UNCHANGED quality_vars

NextCalls ==
  \/ CallStoreSecrets
  \/ \E i \in 1..Len(user_roles), is_service_principal \in BOOLEAN :
       CallAssignRole(i, is_service_principal)

SpecCalls == InitCalls /\ [][NextCalls]_vars

\* ------------------------------------------------------------------------
\* run-quality-checks.py: QualityChecker and main
\* ------------------------------------------------------------------------
\* The tools of run_all_checks, in order, by the name of their check.
QualityTools ==
  <<"Black Formatting", "Import Sorting", "Flake8 Linting",
    "Type Checking (MyPy)", "Security Scan (Bandit)">>

\* How subprocess.run of a tool can end: with an exit status, by running
\* into the timeout, or by not starting at all.
ToolOutcomes == {"exit_0", "exit_1", "exit_2", "timeout", "launch_failure"}

\* run_command: the exit code it returns.
run_command(outcome) ==
  CASE outcome = "exit_0" -> 0
    [] outcome = "exit_2" -> 2
    [] OTHER -> 1

\* check_black_formatting .. check_security: the entry for the tool.
check_result(name, code) ==
  [name |-> name, passed |-> (code = 0), code |-> code]

\* run_all_checks: the summary of the checks.
quality_summary(checks) ==
  [total |-> Len(checks),
   passed |-> Cardinality({i \in 1..Len(checks) : checks[i].passed}),
   failed |-> Cardinality({i \in 1..Len(checks) : ~checks[i].passed})]

\* main: the options are parsed and the QualityChecker is constructed.
QualityMain(json_output) ==
  /\ qpc = "idle"
  /\ checker' = NoChecker
  /\ qframe' = [NoQualityFrame EXCEPT !.json_output = json_output]
  /\ qpc' = "checks"
  /\ UNCHANGED validator_vars
  /\ UNCHANGED deployer_vars

\* run_all_checks: the i-th element of the list checks is evaluated; the
\* tool runs and ends in some way.
RunCheck(i) ==
  /\ qpc = "checks"
  /\ Len(qframe.ran) = i - 1
  /\ \E outcome \in ToolOutcomes :
       /\ qframe' = [qframe EXCEPT
                       !.ran = Append(@, [tool |-> QualityTools[i],
                                          outcome |-> outcome])]
       /\ checker' = [checker EXCEPT
                        !.checks = Append(@,
                          check_result(QualityTools[i], run_command(outcome)))]
  /\ qpc' = IF i < Len(QualityTools) THEN "checks" ELSE "summary"
  /\ UNCHANGED validator_vars
  /\ UNCHANGED deployer_vars

\* run_all_checks: self.results is built and returned.
RunAllChecksReturn ==
  /\ qpc = "summary"
  /\ checker' = [checker EXCEPT !.summary = quality_summary(checker.checks)]
  /\ qpc' = "output"
  /\ UNCHANGED qframe
  /\ UNCHANGED validator_vars
  /\ UNCHANGED deployer_vars

\* main after run_all_checks: the results are printed as JSON, or
\* generate_report prints the table and writes checks/reports/
\* quality-report.json under the current directory, which raises when the
\* directory checks/ is not there or the file cannot be written; then
\* sys.exit(0 if failed == 0 else 1).  An uncaught exception ends the
\* process with status 1.
QualityOutput ==
  /\ qpc = "output"
  /\ \E report_written \in BOOLEAN :
       qframe' = [qframe EXCEPT
                    !.exit_code =
                      IF ~qframe.json_output /\ ~report_written THEN 1
                      ELSE IF checker.summary.failed = 0 THEN 0 ELSE 1]
  /\ qpc' = "exited"
  /\ UNCHANGED checker
  /\ UNCHANGED validator_vars
  /\ UNCHANGED deployer_vars

InitQuality ==
  /\ ValidatorUnused
  /\ DeployerUnused
  /\ checker = NoChecker
  /\ qpc = "idle"
  /\ qframe = NoQualityFrame

NextQuality ==
  \/ \E json_output \in BOOLEAN : QualityMain(json_output)
  \/ \E i \in 1..Len(QualityTools) : RunCheck(i)
  \/ RunAllChecksReturn
  \/ QualityOutput

SpecQuality == InitQuality /\ [][NextQuality]_vars

\* ------------------------------------------------------------------------
\* Properties
\* ------------------------------------------------------------------------
Last(seq) == seq[Len(seq)]

Count(seq, Test(_)) == Cardinality({i \in 1..Len(seq) : Test(seq[i])})

\* C1: in every summary validate_configuration returns, is_valid is true
\* exactly when the errors list is empty at that moment, whatever the
\* warnings and info messages are; the returned flag agrees with it.
C1_IsValidIffNoErrors ==
  \A i \in 1..Len(returned) :
    /\ returned[i].summary.is_valid = (returned[i].errors = <<>>)
    /\ returned[i].is_valid = returned[i].summary.is_valid

\* A valid summary that carries warnings and info messages.
C1_Witness ==
  \E i \in 1..Len(returned) :
    /\ returned[i].summary.is_valid
    /\ returned[i].warnings # <<>>
    /\ returned[i].info_messages # <<>>

\* C2: two validate_configuration calls on the same loaded config, with the
\* same behaviour of the external tool, return the same errors, warnings
\* and info_messages.
C2_SameConfigSameFindings ==
  \A i, j \in 1..Len(returned) :
    (returned[i].config = returned[j].config /\
     returned[i].probe = returned[j].probe)
      => /\ returned[i].errors = returned[j].errors
         /\ returned[i].warnings = returned[j].warnings
         /\ returned[i].info_messages = returned[j].info_messages

\* C3: once a summary has been returned, no later step changes the lists it
\* holds.
C3_ReturnedListsFrozen ==
  [][\A i \in 1..Len(returned) :
       /\ validators'[returned[i].validator].errors = Errors(returned[i])
       /\ validators'[returned[i].validator].warnings = Warnings(returned[i])
       /\ validators'[returned[i].validator].info_messages
            = InfoMessages(returned[i])]_vars

\* The ways the external tool can fail: everything but a well-formed
\* account object.
ProbeFailures ==
  {o \in ProbeOutcomes : o.stdout # "json_object_account"}

ProbeWarnings ==
  {CliNotFoundFinding, CliNotAuthenticatedFinding, CliUnverifiedFinding}

\* C4: whatever way the external tool fails, the probe does not raise, adds
\* no error, and leaves a warning as the last finding.
C4_ProbeFailureIsWarning ==
  (cur # 0 /\ probe \in ProbeFailures)
    => /\ raised = "none"
       /\ validators[cur].warnings # <<>>
       /\ Last(validators[cur].warnings) \in ProbeWarnings

\* C5: validate_configuration runs the seven checks once each, in order and
\* whatever they find; a summary exists only after all seven have run, and
\* a call that has not finished has returned nothing.
C5_AllChecksThenSummary ==
  /\ pc \in Range(CheckOrder) => (/\ Len(ran) < Len(CheckOrder)
                                  /\ ran = SubSeq(CheckOrder, 1, Len(ran))
                                  /\ pc = CheckOrder[Len(ran) + 1])
  /\ pc = "summary" => ran = CheckOrder
  /\ (pc = "idle" /\ calls > 0) => ran = CheckOrder
  /\ pc # "idle" => Len(returned) < calls
  /\ \A i \in 1..Len(returned) : returned[i].ran = CheckOrder

\* A summary whose errors come from the first check and from a later one.
C5_Witness ==
  \E i \in 1..Len(returned) :
    /\ returned[i].ran = CheckOrder
    /\ \E m, n \in 1..Len(returned[i].errors) :
         /\ m < n
         /\ returned[i].errors[m].kind = "naming_pattern"
         /\ returned[i].errors[n].kind = "invalid_boolean"

\* The required variables the file named by --env-file does not set.
MissingInFile(env_file) ==
  SelectSeq(required_vars, LAMBDA v : Unset(FileSystem[env_file], v))

\* C6: if the file is missing, or lacks a required variable, load_config
\* returns False leaving one error per missing variable (or the
\* file-not-found error), and main reports is_valid false and runs no check.
C6_LoadFailureStopsMain ==
  (mainpc \notin {"none", "start", "load"}) =>
    LET f == args.env_file
    IN  /\ f \notin DOMAIN FileSystem =>
             /\ ~loads[1].result
             /\ validators[1].errors = <<FileNotFoundFinding(f)>>
             /\ calls = 0
             /\ mainpc = "exited" => (reported.printed /\ ~reported.is_valid)
        /\ (f \in DOMAIN FileSystem /\ MissingInFile(f) # <<>>) =>
             /\ ~loads[1].result
             /\ validators[1].errors =
                  [i \in 1..Len(MissingInFile(f)) |->
                     MissingVarFinding(MissingInFile(f)[i])]
             /\ calls = 0
             /\ mainpc = "exited" => (reported.printed /\ ~reported.is_valid)

\* C7: the process exits with 0 exactly when it printed is_valid true, and
\* with 1 in every other case.
C7_ExitCodeIffValid ==
  /\ mainpc = "exited" =>
       /\ exit_code \in {0, 1}
       /\ exit_code = 0 <=> (reported.printed /\ reported.is_valid)
  /\ mainpc # "exited" => exit_code = -1

\* Exit 0 after a valid summary printed as JSON.
C7_Witness ==
  /\ mainpc = "exited"
  /\ exit_code = 0
  /\ args.json_output
  /\ reported.is_valid

\* The validator and the name under a rule, once the naming check has run.
NamingRan == ran = <<"naming">>

Mismatch(k) ==
  /\ k \in DOMAIN validators[1].config
  /\ ~re_match(NAMING_PATTERNS[k].pattern, validators[1].config[k])

OutOfRange(k) ==
  /\ k \in DOMAIN validators[1].config
  /\ \/ Len(validators[1].config[k]) < NAMING_PATTERNS[k].min_length
     \/ Len(validators[1].config[k]) > NAMING_PATTERNS[k].max_length

RECURSIVE Sum(_, _)
Sum(f, S) ==
  IF S = {} THEN 0
  ELSE LET x == CHOOSE y \in S : TRUE IN f[x] + Sum(f, S \ {x})

\* C8: a present name that does not match its pattern gets exactly one
\* mismatch error (description and value) directly followed by the rule's
\* restrictions in order; a matching name gets no mismatch error, and there
\* are no restriction lines but those.
C8_PatternMismatchBlock ==
  NamingRan =>
    LET E == validators[1].errors
    IN  /\ \A k \in DOMAIN NAMING_PATTERNS :
             LET rules == NAMING_PATTERNS[k]
                 at    == {i \in 1..Len(E) :
                             /\ E[i].kind = "naming_pattern"
                             /\ E[i].description = rules.description}
             IN  IF Mismatch(k)
                   THEN /\ Cardinality(at) = 1
                        /\ \A i \in at :
                             /\ E[i] = PatternFinding(rules,
                                                      validators[1].config[k])
                             /\ i + Len(rules.restrictions) <= Len(E)
                             /\ \A j \in 1..Len(rules.restrictions) :
                                  E[i + j] =
                                    RestrictionFinding(rules.restrictions[j])
                   ELSE at = {}
        /\ Count(E, LAMBDA e : e.kind = "restriction") =
             Sum([k \in DOMAIN NAMING_PATTERNS |->
                    IF Mismatch(k)
                      THEN Len(NAMING_PATTERNS[k].restrictions) ELSE 0],
                 DOMAIN NAMING_PATTERNS)

\* A name of legal length breaking a pattern with three restrictions: four
\* errors in all.
C8_Witness ==
  /\ NamingRan
  /\ Mismatch("STORAGE_ACCOUNT_NAME")
  /\ ~OutOfRange("STORAGE_ACCOUNT_NAME")
  /\ Len(validators[1].errors) = 4

\* C9: a present name gets exactly one length error (with the measured
\* length and the bounds) if its length is outside the rule's bounds, and
\* none otherwise, whether or not its pattern matched.
C9_LengthErrorIffOutOfRange ==
  NamingRan =>
    LET E == validators[1].errors
    IN  \A k \in DOMAIN NAMING_PATTERNS :
          LET rules == NAMING_PATTERNS[k]
              at    == {i \in 1..Len(E) :
                          /\ E[i].kind = "naming_length"
                          /\ E[i].description = rules.description}
          IN  IF OutOfRange(k)
                THEN /\ Cardinality(at) = 1
                     /\ \A i \in at :
                          E[i] = LengthFinding(rules, validators[1].config[k])
                ELSE at = {}

\* A name that is too short and breaks its pattern: both errors are there.
C9_Witness ==
  /\ NamingRan
  /\ \E k \in DOMAIN NAMING_PATTERNS :
       /\ OutOfRange(k)
       /\ Mismatch(k)
       /\ \E i, j \in 1..Len(validators[1].errors) :
            /\ validators[1].errors[i].kind = "naming_pattern"
            /\ validators[1].errors[i].description =
                 NAMING_PATTERNS[k].description
            /\ validators[1].errors[j].kind = "naming_length"
            /\ validators[1].errors[j].description =
                 NAMING_PATTERNS[k].description

\* C10: a present name under a rule of global scope gets the short-name
\* warning exactly once if it has fewer than 8 characters, whatever the
\* pattern and length checks said, and not at all otherwise; a name under a
\* rule of another scope never gets it.
C10_ShortGlobalNameWarning ==
  NamingRan =>
    LET W == validators[1].warnings
    IN  \A k \in DOMAIN NAMING_PATTERNS :
          LET rules == NAMING_PATTERNS[k]
              at    == {i \in 1..Len(W) :
                          /\ W[i].kind = "short_global_name"
                          /\ W[i].description = rules.description}
          IN  IF /\ k \in DOMAIN validators[1].config
                 /\ rules.scope = "global"
                 /\ Len(validators[1].config[k]) < 8
                THEN /\ Cardinality(at) = 1
                     /\ \A i \in at :
                          W[i] = ShortNameFinding(rules,
                                                  validators[1].config[k])
                ELSE at = {}

\* A short global name that fails pattern and length and is still warned
\* about.
C10_Witness ==
  /\ NamingRan
  /\ \E k \in DOMAIN NAMING_PATTERNS :
       /\ NAMING_PATTERNS[k].scope = "global"
       /\ Mismatch(k)
       /\ OutOfRange(k)
       /\ \E i \in 1..Len(validators[1].warnings) :
            validators[1].warnings[i] =
              ShortNameFinding(NAMING_PATTERNS[k], validators[1].config[k])

\* ------------------------------------------------------------------------
\* The checks after naming, on the configs of SpecChecks
\* ------------------------------------------------------------------------
Done(step) == step \in Range(ran)

\* The findings of the given kinds, in list order.
OfKinds(seq, kinds) ==
  LET Test(f) == f.kind \in kinds IN SelectSeq(seq, Test)

\* The findings of the given kinds about the variable var, in list order.
OfVar(seq, kinds, var) ==
  LET Test(f) == f.kind \in kinds /\ f.var = var IN SelectSeq(seq, Test)

LocationKinds ==
  {"uncommon_location", "ai_services_unavailable", "openai_unavailable",
   "search_limited"}

SkuKinds == {"invalid_sku", "sku_limitation"}

NetworkKinds == {"invalid_network_access", "private_network"}

\* A validator as constructed, holding the config c.
Fresh(c) == [NewValidator(FALSE) EXCEPT !.config = c]

Listed(v) == lower(v) \in DOMAIN AZURE_REGIONS

\* C11: once the region check has run on a config whose LOCATION, lower-cased,
\* is not a key of AZURE_REGIONS, its findings are exactly one
\* uncommon-location warning: no error, no info and no capability finding,
\* whatever the other keys are.
C11_UnlistedRegionOneWarning ==
  LET V == validators[cur]
  IN  (Done("location") /\ "LOCATION" \in DOMAIN V.config
         /\ ~Listed(V.config["LOCATION"])) =>
        /\ OfKinds(V.warnings, LocationKinds)
             = <<UncommonLocationFinding(lower(V.config["LOCATION"]))>>
        /\ OfKinds(V.errors, LocationKinds) = <<>>
        /\ OfKinds(V.info_messages, LocationKinds) = <<>>

C11_Witness ==
  /\ Done("location")
  /\ "LOCATION" \in DOMAIN validators[cur].config
  /\ ~Listed(validators[cur].config["LOCATION"])
  /\ "OPENAI_SERVICE_NAME" \in DOMAIN validators[cur].config
  /\ Len(OfKinds(validators[cur].warnings, {"uncommon_location"})) = 1

\* A region table of one row with the given flags.
OneRegion(code, a, o, s) ==
  code :> [ai_services |-> a, openai |-> o, search |-> s]

\* C12: for every region of AZURE_REGIONS without OpenAI, the region check on
\* a config with that LOCATION and an OPENAI_SERVICE_NAME adds exactly one
\* error, the OpenAI one for that region, and every verdict returned for such
\* a config is is_valid = False.  For a table row with ai_services False the
\* check adds one error, and for a row with search False one warning and no
\* error.
C12_NoOpenAiRegionIsError ==
  LET V == validators[cur]
      NoOpenAi(c) ==
        /\ "LOCATION" \in DOMAIN c
        /\ "OPENAI_SERVICE_NAME" \in DOMAIN c
        /\ Listed(c["LOCATION"])
        /\ ~AZURE_REGIONS[lower(c["LOCATION"])].openai
  IN  /\ (Done("location") /\ NoOpenAi(V.config)) =>
           /\ OfKinds(V.errors, LocationKinds)
                = <<OpenAiFinding(lower(V.config["LOCATION"]))>>
           /\ OfKinds(V.warnings, LocationKinds) = <<>>
      /\ \A i \in 1..Len(returned) :
           NoOpenAi(returned[i].config) =>
             /\ ~returned[i].is_valid
             /\ ~returned[i].summary.is_valid
      /\ \A a \in BOOLEAN, o \in BOOLEAN, s \in BOOLEAN :
           LET code == <<"x", "1">>
               W == RegionFindings(OneRegion(code, a, o, s),
                                   Fresh("LOCATION" :> code))
               n(seq, kind) == Len(OfKinds(seq, {kind}))
           IN  /\ n(W.errors, "ai_services_unavailable") = (IF a THEN 0 ELSE 1)
               /\ n(W.errors, "openai_unavailable") = (IF o THEN 0 ELSE 1)
               /\ n(W.errors, "search_limited") = 0
               /\ n(W.warnings, "search_limited") = (IF s THEN 0 ELSE 1)
               /\ Len(W.errors) + Len(W.warnings)
                    = n(W.errors, "ai_services_unavailable")
                        + n(W.errors, "openai_unavailable")
                        + n(W.warnings, "search_limited")
               /\ validate_configuration_result(W).is_valid = (a /\ o)

C12_Witness ==
  /\ Len(returned) = 1
  /\ "LOCATION" \in DOMAIN returned[1].config
  /\ returned[1].config["LOCATION"] = <<"w", "e", "s", "t", "u", "s", "3">>
  /\ "OPENAI_SERVICE_NAME" \in DOMAIN returned[1].config
  /\ ~returned[1].is_valid
  /\ Len(OfKinds(returned[1].errors, {"openai_unavailable"})) = 1

\* C13: the region check finds for a LOCATION v what it finds for v
\* lower-cased, and a LOCATION that is not listed gives no error.
C13_RegionCaseNormalized ==
  LET V == validators[cur]
  IN  (Done("location") /\ "LOCATION" \in DOMAIN V.config) =>
        LET v == V.config["LOCATION"]
            L == validate_azure_location(
                   Fresh(("LOCATION" :> lower(v)) @@ V.config))
        IN  /\ OfKinds(V.errors, LocationKinds) = L.errors
            /\ OfKinds(V.warnings, LocationKinds) = L.warnings
            /\ OfKinds(V.info_messages, LocationKinds) = L.info_messages
            /\ ~Listed(v) => OfKinds(V.errors, LocationKinds) = <<>>

C13_Witness ==
  /\ Done("location")
  /\ "LOCATION" \in DOMAIN validators[cur].config
  /\ validators[cur].config["LOCATION"] = <<"W", "E", "S", "T", "U", "S", "3">>
  /\ OfKinds(validators[cur].errors, LocationKinds)
       = <<OpenAiFinding(<<"w", "e", "s", "t", "u", "s", "3">>)>>

\* str.split(sep) for strings as character sequences.
RECURSIVE split(_, _)
split(s, sep) ==
  LET at == {i \in 1..(Len(s) - Len(sep) + 1) :
               SubSeq(s, i, i + Len(sep) - 1) = sep}
  IN  IF at = {} THEN <<s>>
      ELSE LET i == CHOOSE j \in at : \A k \in at : j <= k
           IN  <<SubSeq(s, 1, i - 1)>>
                 \o split(SubSeq(s, i + Len(sep), Len(s)), sep)

\* C14: once the SKU check has run, every SKU key of the config has: for a
\* value outside valid_values exactly one error, whose list of options split
\* at ", " is valid_values in catalog order, and no info; for a valid value
\* with a limitation exactly one info with that limitation text and no error;
\* for a valid value without one, nothing.  The check leaves the warnings as
\* the naming and region checks made them.
C14_SkuFindings ==
  LET V == validators[cur]
  IN  Done("sku") =>
        /\ \A k \in DOMAIN VALID_SKUS \cap DOMAIN V.config :
             LET v == V.config[k]
                 sku == VALID_SKUS[k]
                 E == OfVar(V.errors, SkuKinds, k)
                 I == OfVar(V.info_messages, SkuKinds, k)
             IN  IF v \notin Range(sku.valid_values)
                   THEN /\ Len(E) = 1
                        /\ E[1].kind = "invalid_sku"
                        /\ E[1].value = v
                        /\ split(E[1].valid_options, CommaSpace)
                             = sku.valid_values
                        /\ I = <<>>
                   ELSE IF v \in DOMAIN sku.limitations
                     THEN /\ E = <<>>
                          /\ Len(I) = 1
                          /\ I[1].kind = "sku_limitation"
                          /\ I[1].value = v
                          /\ I[1].text = sku.limitations[v]
                     ELSE E = <<>> /\ I = <<>>
        /\ OfKinds(V.warnings, SkuKinds) = <<>>
        /\ ran = <<"naming", "location", "sku">> =>
             V.warnings = validate_azure_location(
                            validate_azure_naming(Fresh(V.config))).warnings

C14_Witness ==
  /\ ran = <<"naming", "location", "sku">>
  /\ Len(OfKinds(validators[cur].errors, {"invalid_sku"})) = 1
  /\ Len(OfKinds(validators[cur].info_messages, {"sku_limitation"})) = 2

BooleanVars == Range(boolean_vars)

\* C15 as stated: each boolean key of the config has exactly one error,
\* carrying the value as configured, iff the value lower-cased is neither
\* "true" nor "false", and no error otherwise; no other key has one.
C15_BooleanErrorNamesValue ==
  LET V == validators[cur]
  IN  Done("boolean") =>
        /\ \A k \in BooleanVars \cap DOMAIN V.config :
             OfVar(V.errors, {"invalid_boolean"}, k)
               = IF lower(V.config[k]) \in true_false
                   THEN <<>>
                   ELSE <<[kind |-> "invalid_boolean", var |-> k,
                           value |-> V.config[k]]>>
        /\ \A i \in 1..Len(V.errors) :
             V.errors[i].kind = "invalid_boolean" =>
               V.errors[i].var \in BooleanVars \cap DOMAIN V.config

\* C15, amended: each boolean key of the config has exactly one error iff the
\* value lower-cased is neither "true" nor "false", and that error carries
\* the lower-cased value; a boolean key with such a value has none, and no
\* other key has one.  The check adds no warning and no info.
C15_BooleanErrorNamesLoweredValue ==
  LET V == validators[cur]
  IN  Done("boolean") =>
        /\ \A k \in BooleanVars \cap DOMAIN V.config :
             OfVar(V.errors, {"invalid_boolean"}, k)
               = IF lower(V.config[k]) \in true_false
                   THEN <<>>
                   ELSE <<[kind |-> "invalid_boolean", var |-> k,
                           value |-> lower(V.config[k])]>>
        /\ \A i \in 1..Len(V.errors) :
             V.errors[i].kind = "invalid_boolean" =>
               V.errors[i].var \in BooleanVars \cap DOMAIN V.config
        /\ OfKinds(V.warnings, {"invalid_boolean"}) = <<>>
        /\ OfKinds(V.info_messages, {"invalid_boolean"}) = <<>>

C15_Witness ==
  /\ Done("boolean")
  /\ "DRY_RUN" \in DOMAIN validators[cur].config
  /\ validators[cur].config["DRY_RUN"] = <<"M", "a", "y", "b", "e">>
  /\ "VERBOSE_LOGGING" \in DOMAIN validators[cur].config
  /\ "ENABLE_DIAGNOSTICS" \in DOMAIN validators[cur].config
  /\ Len(OfKinds(validators[cur].errors, {"invalid_boolean"})) = 2

\* C16: once the network-access check has run on a config with
\* NETWORK_ACCESS: a value other than exactly Public, Private or Restricted
\* has exactly one error, listing the three levels, and no warning; Private
\* has exactly one warning and no error; Public and Restricted have nothing.
C16_NetworkAccessCaseSensitive ==
  LET V == validators[cur]
  IN  (Done("network") /\ "NETWORK_ACCESS" \in DOMAIN V.config) =>
        LET v == V.config["NETWORK_ACCESS"]
            E == OfKinds(V.errors, NetworkKinds)
            W == OfKinds(V.warnings, NetworkKinds)
        IN  /\ OfKinds(V.info_messages, NetworkKinds) = <<>>
            /\ IF v \notin {Public, Private, Restricted}
                 THEN /\ Len(E) = 1
                      /\ E[1].kind = "invalid_network_access"
                      /\ E[1].value = v
                      /\ split(E[1].valid_options, CommaSpace)
                           = <<Public, Private, Restricted>>
                      /\ W = <<>>
                 ELSE IF v = Private
                   THEN E = <<>> /\ W = <<[kind |-> "private_network"]>>
                   ELSE E = <<>> /\ W = <<>>

C16_Witness ==
  /\ Done("network")
  /\ "NETWORK_ACCESS" \in DOMAIN validators[cur].config
  /\ validators[cur].config["NETWORK_ACCESS"] = lower(Private)
  /\ Len(OfKinds(validators[cur].errors, {"invalid_network_access"})) = 1
  /\ OfKinds(validators[cur].warnings, NetworkKinds) = <<>>

\* The description of the naming rule of a key.
Descriptions(keys) == {NAMING_PATTERNS[k].description : k \in keys}

\* C17: once checks 1-6 have run, every finding belongs to a key of the
\* config: a naming finding carries the description of a present name, the
\* restriction lines are those of the present names that fail their pattern,
\* region findings need LOCATION, a SKU or boolean finding is about a present
\* key, network findings need NETWORK_ACCESS and the e-mail warning
\* RESOURCE_OWNER; the empty config has no finding.
C17_AbsentKeysSkipped ==
  LET V == validators[cur]
      c == V.config
      all == V.errors \o V.warnings \o V.info_messages
  IN  ran = <<"naming", "location", "sku", "boolean", "network", "email">> =>
        /\ \A i \in 1..Len(all) :
             LET f == all[i]
             IN  CASE f.kind \in {"naming_pattern", "naming_length",
                                  "short_global_name"} ->
                        f.description
                          \in Descriptions(DOMAIN NAMING_PATTERNS \cap DOMAIN c)
                   [] f.kind = "restriction" ->
                        \E k \in DOMAIN NAMING_PATTERNS \cap DOMAIN c :
                          /\ ~re_match(NAMING_PATTERNS[k].pattern, c[k])
                          /\ f.text \in Range(NAMING_PATTERNS[k].restrictions)
                   [] f.kind \in LocationKinds -> "LOCATION" \in DOMAIN c
                   [] f.kind \in SkuKinds \cup {"invalid_boolean"} ->
                        f.var \in DOMAIN c
                   [] f.kind \in NetworkKinds -> "NETWORK_ACCESS" \in DOMAIN c
                   [] f.kind = "invalid_email" -> "RESOURCE_OWNER" \in DOMAIN c
                   [] OTHER -> FALSE
        /\ c = EmptyMap => all = <<>>

C17_Witness ==
  /\ ran = <<"naming", "location", "sku", "boolean", "network", "email">>
  /\ validators[cur].config = EmptyMap
  /\ validators[cur].errors = <<>>
  /\ validators[cur].warnings = <<>>
  /\ validators[cur].info_messages = <<>>

\* ------------------------------------------------------------------------
\* The deployment script
\* ------------------------------------------------------------------------
\* The commands C18 names: resource creates, role assignments, secret sets.
Provisioning(cmd) ==
  cmd.verb \in {"create", "role_assignment_create", "secret_set"}

\* C18: every resource create, role assignment and secret set a deployment
\* run issues comes after the configuration validator has returned a passing
\* verdict, and a run with a failing verdict issues none.
C18_ValidatedBeforeProvisioning ==
  \A i \in 1..Len(issued) :
    Provisioning(issued[i]) =>
      /\ returned # <<>>
      /\ \A j \in 1..Len(returned) : returned[j].is_valid

Creates(cmds) == {i \in 1..Len(cmds) : cmds[i].verb = "create"}

\* C19: a create command is executed only for a resource that does not
\* exist, however the existence query ended; and the run after a real run
\* that succeeded executes no create and records every resource of the nine
\* steps as existing.
C19_IdempotentCreateOrSkip ==
  [][/\ \A i \in (Len(issued) + 1)..Len(issued') :
          issued'[i].verb = "create" => issued'[i].target \notin cloud
     /\ \A i \in 2..Len(finished') :
          LET before == finished'[i - 1]
              again == finished'[i]
          IN  (/\ before.outcome = "success"
               /\ ~before.dry_run /\ ~before.config_only
               /\ ~again.config_only
               /\ again.outcome \in {"success", "errors"}) =>
                /\ Creates(again.issued) = {}
                /\ DeployResources \subseteq Range(again.existing_resources)
    ]_vars

\* C20: with dry_run, a run executes no command that creates or modifies
\* anything, in any step; what it executes are the login check and 'show'
\* queries, and the subscription is as it was when the run ends.
C20_DryRunChangesNothing ==
  /\ deployer.dry_run =>
       /\ \A i \in 1..Len(issued) :
            /\ ~Mutating(issued[i])
            /\ \/ issued[i] = Cmd("account_show", "login")
               \/ /\ issued[i].verb = "show"
                  /\ issued[i].target \in DeployResources
       /\ dpc # "idle" => cloud = frame.cloud_at_start
  /\ \A k \in 1..Len(finished) :
       finished[k].dry_run =>
         /\ \A i \in 1..Len(finished[k].issued) :
              ~Mutating(finished[k].issued[i])
         /\ finished[k].cloud_after = finished[k].cloud_before

C20_Witness ==
  /\ Len(finished) = 1
  /\ finished[1].dry_run
  /\ ~finished[1].config_only
  /\ finished[1].outcome = "success"
  /\ Len(finished[1].created_resources) = Cardinality(DeployResources)
  /\ Len(finished[1].issued) = 1 + Cardinality(DeployResources)

\* ------------------------------------------------------------------------
\* Claims about the deployer's steps and about the catalog
\* ------------------------------------------------------------------------
\* The commands of a sequence with the given verb.
WithVerb(cmds, verb) == SelectSeq(cmds, LAMBDA c : c.verb = verb)

\* Whether entry i of all_config has a value: a value read from a query is
\* there when the query printed its document.
HasValue(i) ==
  all_config[i].from = 0 \/ Outcome(az, all_config[i].from) = "json"

\* How the 'secret set' of entry i ends.
SetOutcome(i) == Outcome(az, Len(SecretQueries) + i)

\* C21: outside dry-run, store_secrets_in_keyvault issues one 'secret set'
\* per entry of all_config that has a value, in order, and none for an entry
\* without a value, whatever the earlier 'secret set' commands did; it
\* returns true exactly when one of these commands exited with status 0.
C21_SecretsStoredAndCounted ==
  (dpc = "stored" /\ ~deployer.dry_run) =>
    LET with_value == SelectSeq([i \in 1..Len(all_config) |-> i], HasValue)
        sets == WithVerb(issued, "secret_set")
    IN  /\ Len(sets) = Len(with_value)
        /\ \A k \in 1..Len(sets) :
             sets[k].target = all_config[with_value[k]].name
        /\ frame.success <=>
             \E k \in 1..Len(with_value) :
               SetOutcome(with_value[k]) \in ExitZero

\* The values of the naming inputs with exactly min_length characters that
\* match the pattern of rule k.
BoundaryMatches(k) ==
  {v \in NamingValues :
     /\ Len(v) = NAMING_PATTERNS[k].min_length
     /\ re_match(NAMING_PATTERNS[k].pattern, v)}

\* The errors of the given kind that carry the description of rule k.
ErrorsAbout(E, kind, k) ==
  {i \in 1..Len(E) : /\ E[i].kind = kind
                     /\ E[i].description = NAMING_PATTERNS[k].description}

\* C22: every rule has a value of exactly min_length characters that
\* matches its pattern, and such a value gets no length error and no pattern
\* error; a value one character shorter than min_length gets exactly one
\* length error.
C22_MinLengthBoundary ==
  NamingRan =>
    LET E == validators[1].errors
        config == validators[1].config
    IN  \A k \in DOMAIN NAMING_PATTERNS \cap DOMAIN config :
          /\ BoundaryMatches(k) # {}
          /\ config[k] \in BoundaryMatches(k) =>
               /\ ErrorsAbout(E, "naming_length", k) = {}
               /\ ErrorsAbout(E, "naming_pattern", k) = {}
          /\ Len(config[k]) = NAMING_PATTERNS[k].min_length - 1 =>
               Cardinality(ErrorsAbout(E, "naming_length", k)) = 1

ConsecutiveHyphens(v) ==
  \E i \in 1..(Len(v) - 1) : v[i] = "-" /\ v[i + 1] = "-"

\* C23: a KEYVAULT_NAME or COGNITIVE_SEARCH_NAME with two hyphens in a row
\* (a restriction both rules list) gets the pattern-mismatch error of its
\* rule, and validate_configuration returns is_valid false.
C23_ConsecutiveHyphensRejected ==
  \A i \in 1..Len(returned) :
    \A k \in {"KEYVAULT_NAME", "COGNITIVE_SEARCH_NAME"} :
      (/\ k \in DOMAIN returned[i].config
       /\ ConsecutiveHyphens(returned[i].config[k])) =>
        /\ ErrorsAbout(returned[i].errors, "naming_pattern", k) # {}
        /\ ~returned[i].is_valid

\* The resource each of the nine steps of deploy asks for first.
StepProbes ==
  <<"Resource Group", "General AI Services", "OpenAI Service",
    "Cognitive Search", "Key Vault", "App Configuration",
    "Application Insights", "ML Workspace", "App Service Plan">>

\* The resources each step answers for with the value it returns (the last
\* step returns True whatever happened).
StepResources ==
  <<{"Resource Group"}, {"General AI Services"}, {"OpenAI Service"},
    {"Cognitive Search"}, {"Key Vault"}, Range(SupportingResources),
    {"Application Insights"}, {"ML Workspace"}, {}>>

\* Where the deployer first asked for the resource ('show'), 0 if never.
FirstShow(cmds, name) ==
  LET at == {i \in 1..Len(cmds) : cmds[i].verb = "show"
                                   /\ cmds[i].target = name}
  IN  IF at = {} THEN 0 ELSE CHOOSE i \in at : \A j \in at : i <= j

\* A run of deploy without config_only that got past the login check.
FullRun(r) == ~r.config_only /\ r.outcome # "not_logged_in"

\* The steps of the run r that returned True: every resource of the step
\* is on one of the deployer's two lists.
StepsSucceeded(r) ==
  \A i \in 1..Len(StepResources) :
    StepResources[i] \subseteq
      Range(r.created_resources) \cup Range(r.existing_resources)

PermissionsRan(r) == WithVerb(r.issued, "signed_in_user_show") # <<>>

SecretsRan(r) == WithVerb(r.issued, "secret_set") # <<>>

\* C24: a run of deploy without config_only invokes the nine steps in the
\* listed order whatever the earlier steps did; setup_permissions runs only
\* after nine successful steps and without dry_run; the secrets are stored
\* only if every step succeeded; deploy returns false when a step returned
\* false.
C24_DeployOrder ==
  \A n \in 1..Len(finished) :
    LET r == finished[n]
    IN  FullRun(r) =>
          /\ \A i \in 1..Len(StepProbes) :
               FirstShow(r.issued, StepProbes[i]) > 0
          /\ \A i \in 1..(Len(StepProbes) - 1) :
               FirstShow(r.issued, StepProbes[i]) <
                 FirstShow(r.issued, StepProbes[i + 1])
          /\ PermissionsRan(r) => (StepsSucceeded(r) /\ ~r.dry_run)
          /\ SecretsRan(r) => StepsSucceeded(r)
          /\ ~StepsSucceeded(r) => r.outcome # "success"

\* C25: assign_role_to_user makes at most three attempts for a service
\* principal and exactly one for a user, stops at the first attempt that
\* exits with status 0, sleeps only between two attempts, and returns true
\* exactly when an attempt exited with status 0; in dry-run it makes no
\* attempt and returns true.
C25_RoleAssignmentAttempts ==
  dpc = "assigned" =>
    LET attempts == WithVerb(issued, "role_assignment_create")
        sleeps == WithVerb(issued, "sleep")
    IN  IF deployer.dry_run THEN issued = <<>> /\ frame.success
        ELSE LET max_attempts ==
                   IF attempts[1].assignee = "app-principal" THEN 3 ELSE 1
                 good == {k \in 1..max_attempts : Outcome(az, k) \in ExitZero}
                 first == IF good = {} THEN max_attempts
                          ELSE CHOOSE k \in good : \A j \in good : k <= j
             IN  /\ Len(attempts) >= 1
                 /\ Len(attempts) = first
                 /\ Len(sleeps) = Len(attempts) - 1
                 /\ issued[Len(issued)].verb # "sleep"
                 /\ frame.success <=> good # {}

\* The role assignments of the run r to the identity of the applications.
AppAssignments(r) ==
  SelectSeq(r.issued,
            LAMBDA c : /\ c.verb = "role_assignment_create"
                       /\ c.assignee \notin {"user", "unknown"})

\* C26: in every run whose setup_permissions ran to its end with the managed
\* identity there (found, or created by the run), each of the five
\* application roles was assigned to the identity.
C26_IdentityRolesOnEveryRun ==
  \A n \in 1..Len(finished) :
    LET r == finished[n]
    IN  (/\ FullRun(r)
         /\ PermissionsRan(r)
         /\ ManagedIdentity \in r.cloud_after) =>
          \A i \in 1..Len(app_roles) :
            \E k \in 1..Len(AppAssignments(r)) :
              /\ AppAssignments(r)[k].target = app_roles[i].role
              /\ AppAssignments(r)[k].scope = app_roles[i].scope

\* The resources the run r has issued a create for.
CreateIssued(r) ==
  {name \in DeployResources :
     \E i \in 1..Len(r.issued) : /\ r.issued[i].verb = "create"
                                 /\ r.issued[i].target = name}

\* C29: a run without dry_run ends as a successful deployment (deploy
\* returned true, exit status 0) only if every resource of the nine steps,
\* the App Service plan and the web app included, is there: it existed or
\* its create succeeded.
C29_SuccessMeansAllResources ==
  \A n \in 1..Len(finished) :
    LET r == finished[n]
    IN  (FullRun(r) /\ ~r.dry_run /\ r.outcome = "success") =>
          /\ r.exit_status = 0
          /\ DeployResources \subseteq r.cloud_after

\* C30: outside dry_run, a resource whose create exited with status 0 is on
\* created_resources whatever the command printed, and its step returned
\* true; a resource whose create failed is not on created_resources and the
\* run does not end as a success; no resource is on both lists of one run.
C30_CreateOutcomeRecorded ==
  \A n \in 1..Len(finished) :
    LET r == finished[n]
        created == Range(r.created_resources)
        existing == Range(r.existing_resources)
    IN  (FullRun(r) /\ ~r.dry_run) =>
          /\ \A name \in CreateIssued(r) :
               IF name \in r.cloud_after
                 THEN name \in created
                 ELSE name \notin created /\ r.outcome # "success"
          /\ created \cap existing = {}

\* What the file holds for the validator: the recognized variables it sets
\* to a value that is not blank, stripped.
FileConfig(file) ==
  LET recognized == Range(required_vars) \cup Range(optional_vars)
  IN  [k \in {x \in DOMAIN file \cap recognized : ~Unset(file, x)} |->
         strip(file[k])]

\* C28: after a load_config that returned True the config of the validator
\* is what the file holds, nothing more (nothing from the environment the
\* process started with, nothing from an earlier load of another file), and
\* a load from a file lacking a required variable returns False.
C28_ConfigFromFileOnly ==
  loads # <<>> =>
    LET l == Last(loads)
        file == FileSystem[l.env_file]
    IN  /\ l.result => validators[l.validator].config = FileConfig(file)
        /\ (l.env_file \in DOMAIN FileSystem
              /\ MissingInFile(l.env_file) # <<>>) => ~l.result

\* C27: the quality runner runs the five tools in order whatever they
\* report; a check passes exactly when its tool exited with status 0, and a
\* timeout or a tool that cannot be started counts as exit code 1; the
\* summary has total = passed + failed = 5; the process exits with 0
\* exactly when failed = 0.
C27_QualityRunnerVerdict ==
  qpc = "exited" =>
    LET checks == checker.checks
        summary == checker.summary
    IN  /\ Len(qframe.ran) = Len(QualityTools)
        /\ \A i \in 1..Len(QualityTools) :
             /\ qframe.ran[i].tool = QualityTools[i]
             /\ checks[i].name = QualityTools[i]
             /\ checks[i].passed <=> qframe.ran[i].outcome = "exit_0"
             /\ qframe.ran[i].outcome \in {"timeout", "launch_failure"} =>
                  checks[i].code = 1
        /\ summary.total = 5
        /\ summary.passed + summary.failed = summary.total
        /\ (qframe.exit_code = 0) <=> (summary.failed = 0)

====
